---- MODULE Spec2Model ----
(***************************************************************************)
(* Model of the data-access layer of music_scripts:                        *)
(*   - MusicData (a run): snapshot count, integer / slice / tuple          *)
(*     indexing, lazy iteration of _SnapsView   (musicdata.py)             *)
(*   - Snap: the cached raw array of one snapshot (musicdata.py)           *)
(*   - DataFetcher: the per-kind registries and the resolver               *)
(*     (derived_fields.py)                                                 *)
(***************************************************************************)
EXTENDS Integers, Sequences, FiniteSets, TLC

VARIABLES
    files,      \* dump indices of the files the simulation wrote to the run directory
    lenMemo,    \* MusicData._len (cached_property): <<>> unset, <<n>> computed
    res,        \* outcome of the last completed operation on the run
    view,       \* items of the _SnapsView at hand
    itPc,       \* "none" | "fresh" | "iter" | "done" | "failed"
    itItem,     \* generator position: items already finished
    itPos,      \* generator position: elements of the current range consumed
    yielded,    \* idump of the Snaps the generator has yielded, in order
    reads,      \* the dump indices MusicDump.from_file was called on: by the last run[i], or since the view was made
    loadErr,    \* per dump index: the exception MusicDump.from_file raises on its file, "none" if it loads
    snaps,      \* the Snap objects: idump, and big_array of the instance __dict__
    hist,       \* per Snap: arrays built from its dump, arrays its requests saw
    req,        \* the last completed request on a Snap
    locked,     \* whether cached_property takes a lock (Python 3.8-3.11) or not
    lockHolder, \* the thread inside the lock of cached_property, 0 if none
    tpc,        \* per thread: its place in cached_property.__get__
    tval,       \* per thread: the local val of cached_property.__get__
    handlers,   \* DataFetcher subclass -> its _handlers: name -> handler ("none": no entry)
    nreg,       \* registrations made after import
    rres,       \* the last register or resolve: its arguments, its outcome, what it invoked
    lastReg,    \* per kind and name: the function of the most recent @register, "none" if never
    simFiles,   \* MusicData.sim (cached_property): <<>> unset, <<dumps>> the dumps it was built from
    conf,       \* the keys of the run's parameter file that eos and cartesian read
    eosMemo,    \* MusicData.eos (cached_property): <<>> unset, <<instance>> built
    acc,        \* the last attribute read on the run or on a Snap of it, and its outcome
    world,      \* the grid and the raw values of the data source whose arrays are evaluated
    out         \* the last array evaluated: what was resolved, its axes, its values

runVars == <<files, lenMemo, res, view, itPc, itItem, itPos, yielded, loadErr, reads>>
snapVars == <<snaps, hist, req>>
threadVars == <<locked, lockHolder, tpc, tval>>
regVars == <<handlers, nreg, rres, lastReg, simFiles>>
numVars == <<world, out>>
ownVars == <<conf, eosMemo, acc>>

vars == <<files, lenMemo, res, view, itPc, itItem, itPos, yielded, loadErr, reads,
          snaps, hist, req, locked, lockHolder, tpc, tval,
          handlers, nreg, rres, lastReg, simFiles, conf, eosMemo, acc,
          world, out>>

----------------------------------------------------------------------------
(* Bounds of the model *)

MaxIdx == 3     \* largest dump index a file of the directory may carry
MaxSl == 2      \* slice bounds are drawn from -MaxSl..MaxSl (or None)
MaxSnaps == 2   \* Snap objects alive at a time
MaxReq == 3     \* requests made on one Snap object
NThreads == 2   \* threads requesting fields of one Snap
MaxRegs == 2    \* registrations made after import
MaxCells == 2   \* cells of the grid along x1 and along x2
MaxChunks == 5  \* chunks of the longest time axis
MaxScalars == 1 \* largest nscalars of a parameter file

(* Program constants *)

DumpDigits == 8     \* f"{idump:08}" and name[-14:-6]
SlabSize == 10      \* slabbed("time", 10)

\* integer indices are drawn from -MaxArg..MaxArg: beyond both ends of any run
MaxArg == MaxIdx + 2

\* dump indices that get a file name: those of the model and of the 0..9 scenario
MaxName == IF MaxIdx > 9 THEN MaxIdx ELSE 9

----------------------------------------------------------------------------
(* File names: sequences of character codes *)

Min(a, b) == IF a < b THEN a ELSE b
Max(a, b) == IF a > b THEN a ELSE b

RECURSIVE Pow10(_)
Pow10(k) == IF k = 0 THEN 1 ELSE 10 * Pow10(k - 1)

Chr(d) == 48 + d        \* the character of digit d
Digit(c) == c - 48      \* the digit of character c

\* params["io"]["dataoutput"]: the prefix of the dump files, here "d"
DataOutput == <<100>>

\* ".music"
Suffix == <<46, 109, 117, 115, 105, 99>>

\* f"{idump:08}" for 0 <= idump < 10^8
FormatIdump(idump) ==
    [k \in 1..DumpDigits |-> Chr((idump \div Pow10(DumpDigits - k)) % 10)]

\* the file names of the dump indices in use, computed once
OutFileTable ==
    [idump \in 0..MaxName |-> DataOutput \o FormatIdump(idump) \o Suffix]

\* MusicData._outfile (file name part)
OutFile(idump) == OutFileTable[idump]

\* self.path.glob(self._out_pattern): the names of the dump files on disk
Glob(fs) == {OutFile(i) : i \in fs}

\* dump_file.exists()
FileExists(fs, name) == name \in Glob(fs)

\* comparison of paths: character by character
RECURSIVE PathLess(_, _)
PathLess(a, b) ==
    IF a = <<>> THEN b # <<>>
    ELSE IF b = <<>> THEN FALSE
    ELSE IF Head(a) # Head(b) THEN Head(a) < Head(b)
    ELSE PathLess(Tail(a), Tail(b))

\* MaxPath with the comparison turned round: the first path, not the last
MaxPathFirst(fs) == CHOOSE p \in fs : \A q \in fs : ~PathLess(q, p)

\* max(self.path.glob(self._out_pattern))
MaxPath(fs) == CHOOSE p \in fs : \A q \in fs : ~PathLess(p, q)

\* int(s) for a string of decimal digits
RECURSIVE ParseInt(_)
ParseInt(s) ==
    IF s = <<>> THEN 0
    ELSE 10 * ParseInt(SubSeq(s, 1, Len(s) - 1)) + Digit(s[Len(s)])

\* last_dump.name[-14:-6]
IndexPart(name) == SubSeq(name, Len(name) - 13, Len(name) - 6)

\* ComputeLen that answers 0 for a directory without dumps
ComputeLenZero(fs) ==
    IF Glob(fs) = {} THEN [status |-> "ok", val |-> 0]
    ELSE [status |-> "ok", val |-> ParseInt(IndexPart(MaxPath(Glob(fs)))) + 1]

\* MusicData._len, evaluated on the directory: max() of an empty glob raises
\* ValueError
ComputeLen(fs) ==
    IF Glob(fs) = {} THEN [status |-> "ValueError", val |-> 0]
    ELSE [status |-> "ok", val |-> ParseInt(IndexPart(MaxPath(Glob(fs)))) + 1]

\* a len(mdat) that scans the directory at every call
LenCallRescan(fs, memo) == ComputeLen(fs)

\* len(mdat): the cached value if there is one, else computed (and then cached)
LenCall(fs, memo) ==
    IF memo # <<>> THEN [status |-> "ok", val |-> memo[1]] ELSE ComputeLen(fs)

\* the cache after len(mdat): an exception caches nothing
MemoAfter(fs, memo) ==
    IF LenCall(fs, memo).status = "ok" THEN <<LenCall(fs, memo).val>> ELSE memo

\* NormalizeIdump without the wrap of negative indices
NormalizeIdumpNoWrap(idump, n) == idump

\* MusicData._normalize_idump
NormalizeIdump(idump, n) == IF idump < 0 THEN idump + n ELSE idump

\* the dump files that do not load, and the exception MusicDump.from_file
\* raises on each: IndexError (or a subclass of it) or any other exception
LoadErrors == {"IndexError", "OSError"}
NoLoadErr == [i \in 0..MaxName |-> "none"]

\* MusicDump.from_file on the dump file of index i: "none" when it returns
\* the dump, else the exception it raises
LoadDump(i) == loadErr[i]

\* GetItemInt without the test that the dump file exists
GetItemIntNoFile(fs, memo, idump) ==
    LET ln == LenCall(fs, memo)
        i == NormalizeIdump(idump, ln.val)
    IN  IF ln.status # "ok" THEN [status |-> ln.status, val |-> 0, read |-> {}]
        ELSE IF i < 0 \/ i >= ln.val THEN [status |-> "IndexError", val |-> i, read |-> {}]
        ELSE IF LoadDump(i) # "none" THEN [status |-> LoadDump(i), val |-> i, read |-> {i}]
        ELSE [status |-> "ok", val |-> i, read |-> {i}]

\* MusicData.__getitem__ for an integer: the Snap's idump, or the exception
GetItemInt(fs, memo, idump) ==
    LET ln == LenCall(fs, memo)
        i == NormalizeIdump(idump, ln.val)
    IN  IF ln.status # "ok" THEN [status |-> ln.status, val |-> 0, read |-> {}]
        ELSE IF i < 0 \/ i >= ln.val THEN [status |-> "IndexError", val |-> i, read |-> {}]
        ELSE IF ~FileExists(fs, OutFile(i)) THEN [status |-> "IndexError", val |-> i, read |-> {}]
        ELSE IF LoadDump(i) # "none" THEN [status |-> LoadDump(i), val |-> i, read |-> {i}]
        ELSE [status |-> "ok", val |-> i, read |-> {i}]

\* Exists that never looks
ExistsUnchecked(fs, memo, idump) ==
    [status |-> "ok", val |-> TRUE, read |-> {}]

\* _SnapsView._exists: only IndexError is turned into False
Exists(fs, memo, idump) ==
    LET r == GetItemInt(fs, memo, idump)
    IN  IF r.status = "IndexError"
        THEN [status |-> "ok", val |-> FALSE, read |-> r.read]
        ELSE IF r.status = "ok" THEN [status |-> "ok", val |-> TRUE, read |-> r.read]
        ELSE [status |-> r.status, val |-> FALSE, read |-> r.read]

----------------------------------------------------------------------------
(* Items of a view: integers and slices; None is the empty sequence *)

IntItem(i) == [kind |-> "int", i |-> i, start |-> <<>>, stop |-> <<>>, step |-> <<>>]
SliceItem(a, b, c) == [kind |-> "slice", i |-> 0, start |-> a, stop |-> b, step |-> c]

\* slice.indices(n) of a slice with a non-zero step
SliceIndices(sl, n) ==
    LET step == IF sl.step = <<>> THEN 1 ELSE sl.step[1]
        lower == IF step < 0 THEN -1 ELSE 0
        upper == IF step < 0 THEN n - 1 ELSE n
        clip(v) == IF v < 0 THEN Max(v + n, lower) ELSE Min(v, upper)
        start == IF sl.start = <<>> THEN (IF step < 0 THEN upper ELSE lower)
                 ELSE clip(sl.start[1])
        stop == IF sl.stop = <<>> THEN (IF step < 0 THEN lower ELSE upper)
                ELSE clip(sl.stop[1])
    IN  <<start, stop, step>>

\* len(range(start, stop, step))
RangeLen(idx) ==
    LET start == idx[1]
        stop == idx[2]
        step == idx[3]
    IN  IF step > 0
        THEN (IF stop > start THEN (stop - start + step - 1) \div step ELSE 0)
        ELSE (IF start > stop THEN (start - stop - step - 1) \div (-step) ELSE 0)

\* list(range(start, stop, step))
RangeSeq(idx) == [k \in 1..RangeLen(idx) |-> idx[1] + (k - 1) * idx[3]]

----------------------------------------------------------------------------
(* _SnapsView.__iter__: one next() of the generator.  k items are finished,  *)
(* j elements of the range of the current slice item are consumed.  The      *)
(* result is what next() does: "yield" a Snap (val is its idump),            *)
(* "StopIteration", or the exception that escapes.                           *)

IterOut(status, val, k, j, memo, read) ==
    [status |-> status, val |-> val, k |-> k, j |-> j, memo |-> memo,
     read |-> read]

RECURSIVE SnapsViewNext(_, _, _, _, _)
SnapsViewNext(items, k, j, fs, memo) ==
    IF k >= Len(items) THEN IterOut("StopIteration", 0, k, 0, memo, {})
    ELSE
    LET item == items[k + 1]
        ln == LenCall(fs, memo)
        m == MemoAfter(fs, memo)
    IN  IF item.kind = "slice"
        THEN IF ln.status # "ok" THEN IterOut(ln.status, 0, k, j, m, {})
             ELSE IF item.step = <<0>> THEN IterOut("ValueError", 0, k, j, m, {})
             ELSE
             LET rng == RangeSeq(SliceIndices(item, ln.val))
             IN  IF j >= Len(rng) THEN SnapsViewNext(items, k + 1, 0, fs, m)
                 ELSE
                 LET e == Exists(fs, m, rng[j + 1])
                 IN  IF e.status # "ok" THEN IterOut(e.status, 0, k, j, m, e.read)
                     ELSE IF e.val
                     THEN LET snap == GetItemInt(fs, m, rng[j + 1])
                          IN  IterOut(IF snap.status = "ok" THEN "yield"
                                      ELSE snap.status,
                                      snap.val, k, j + 1, m, e.read \cup snap.read)
                     ELSE SnapsViewNext(items, k, j + 1, fs, m)
        ELSE LET e == Exists(fs, memo, item.i)
             IN  IF e.status # "ok" THEN IterOut(e.status, 0, k, 0, m, e.read)
                 ELSE IF e.val
                 THEN LET snap == GetItemInt(fs, m, item.i)
                      IN  IterOut(IF snap.status = "ok" THEN "yield" ELSE snap.status,
                                  snap.val, k + 1, 0, m, e.read \cup snap.read)
                 ELSE SnapsViewNext(items, k + 1, 0, fs, m)

\* list(view): the idumps yielded by a whole iteration from position (k, j)
\* on an unchanging directory, and how the iteration ends
RECURSIVE ViewList(_, _, _, _, _)
ViewList(items, k, j, fs, memo) ==
    LET o == SnapsViewNext(items, k, j, fs, memo)
    IN  IF o.status = "yield"
        THEN LET rest == ViewList(items, o.k, o.j, fs, o.memo)
             IN  [status |-> rest.status, val |-> <<o.val>> \o rest.val]
        ELSE [status |-> o.status, val |-> <<>>]

----------------------------------------------------------------------------
(* Inputs *)

SliceVals == {<<>>} \cup {<<v>> : v \in -MaxSl..MaxSl}
StepVals == {<<>>, <<2>>, <<-1>>, <<0>>}
Slices == {SliceItem(a, b, c) : a \in SliceVals, b \in SliceVals, c \in StepVals}
Ints == {IntItem(i) : i \in -MaxArg..MaxArg}

\* the items of the two-item tuples
PairItems ==
    {IntItem(i) : i \in -MaxSl..MaxSl}
    \cup {SliceItem(a, b, c) : a \in {<<>>, <<1>>}, b \in {<<>>, <<-1>>},
                               c \in {<<>>, <<-1>>}}

\* run[slice] is the view (slice,); run[tuple] is the view of the tuple
Views ==
    {<<>>} \cup {<<s>> : s \in Slices \cup Ints}
    \cup {<<a, b>> : a \in PairItems, b \in PairItems}

NoRes == [op |-> "none", arg |-> 0, status |-> "none", val |-> 0]

----------------------------------------------------------------------------
(* The run: directory, snapshot count, indexing, views *)

InitRun ==
    /\ files \in SUBSET (0..MaxIdx)
    /\ lenMemo = <<>>
    /\ res = NoRes
    /\ view = <<>>
    /\ itPc = "none"
    /\ itItem = 0
    /\ itPos = 0
    /\ yielded = <<>>
    /\ loadErr = NoLoadErr
    /\ reads = {}

Threads == 1..NThreads

\* no Snap, no thread at work
InitSnapIdle ==
    /\ snaps = <<>>
    /\ hist = <<>>
    /\ req = [snap |-> 0, kind |-> "none", val |-> 0]
    /\ locked = TRUE
    /\ lockHolder = 0
    /\ tpc = [t \in Threads |-> "idle"]
    /\ tval = [t \in Threads |-> 0]

\* a run whose directory holds the dumps 0 and 1, not yet indexed
InitRunTwoDumps ==
    /\ files = {0, 1}
    /\ lenMemo = <<>>
    /\ res = NoRes
    /\ view = <<>>
    /\ itPc = "none"
    /\ itItem = 0
    /\ itPos = 0
    /\ yielded = <<>>
    /\ loadErr = NoLoadErr
    /\ reads = {}

\* a run whose directory holds at least one dump, not yet indexed
InitRunDumps ==
    /\ files \in (SUBSET (0..MaxIdx)) \ {{}}
    /\ lenMemo = <<>>
    /\ res = NoRes
    /\ view = <<>>
    /\ itPc = "none"
    /\ itItem = 0
    /\ itPos = 0
    /\ yielded = <<>>
    /\ loadErr = NoLoadErr
    /\ reads = {}

\* the run with no dump loaded
InitRunIdle ==
    /\ files = {}
    /\ lenMemo = <<>>
    /\ res = NoRes
    /\ view = <<>>
    /\ itPc = "none"
    /\ itItem = 0
    /\ itPos = 0
    /\ yielded = <<>>
    /\ loadErr = NoLoadErr
    /\ reads = {}

\* a run whose directory holds dumps, one of which may not load
InitRunLoad ==
    /\ files \in {0..MaxIdx, (0..MaxIdx) \ {1}}
    /\ lenMemo = <<>>
    /\ res = NoRes
    /\ view = <<>>
    /\ itPc = "none"
    /\ itItem = 0
    /\ itPos = 0
    /\ yielded = <<>>
    /\ reads = {}
    /\ loadErr \in {NoLoadErr} \cup
            {[NoLoadErr EXCEPT ![i] = x] : i \in files, x \in LoadErrors}

\* the simulation writes its next dump: an index above those on disk
CreateDump(i) ==
    /\ \A f \in files : f < i
    /\ files' = files \cup {i}
    /\ UNCHANGED <<lenMemo, res, view, itPc, itItem, itPos, yielded, loadErr, reads>>
    /\ UNCHANGED <<snapVars, threadVars, regVars, numVars, ownVars>>

\* len(run)
LenOp ==
    /\ itPc = "none"
    /\ res' = [op |-> "len", arg |-> 0, status |-> LenCall(files, lenMemo).status,
               val |-> LenCall(files, lenMemo).val]
    /\ lenMemo' = MemoAfter(files, lenMemo)
    /\ reads' = {}
    /\ UNCHANGED <<files, view, itPc, itItem, itPos, yielded, loadErr>>
    /\ UNCHANGED <<snapVars, threadVars, regVars, numVars, ownVars>>

\* run[i] for an integer i
GetItem(i) ==
    /\ itPc = "none"
    /\ res' = [op |-> "getitem", arg |-> i,
               status |-> GetItemInt(files, lenMemo, i).status,
               val |-> GetItemInt(files, lenMemo, i).val]
    /\ lenMemo' = MemoAfter(files, lenMemo)
    /\ reads' = GetItemInt(files, lenMemo, i).read
    /\ UNCHANGED <<files, view, itPc, itItem, itPos, yielded, loadErr>>
    /\ UNCHANGED <<snapVars, threadVars, regVars, numVars, ownVars>>

\* a view that asks len(run) when it is made, to normalize its slices
MakeViewEager(items) ==
    /\ itPc = "none"
    /\ view' = items
    /\ itPc' = "fresh"
    /\ itItem' = 0
    /\ itPos' = 0
    /\ yielded' = <<>>
    /\ res' = [op |-> "view", arg |-> 0, status |-> LenCall(files, lenMemo).status,
               val |-> 0]
    /\ lenMemo' = MemoAfter(files, lenMemo)
    /\ reads' = {}
    /\ UNCHANGED <<files, loadErr>>
    /\ UNCHANGED <<snapVars, threadVars, regVars, numVars, ownVars>>

\* run[slice], run[tuple], iter(run): builds the view and nothing else
MakeView(items) ==
    /\ itPc = "none"
    /\ view' = items
    /\ itPc' = "fresh"
    /\ itItem' = 0
    /\ itPos' = 0
    /\ yielded' = <<>>
    /\ res' = [op |-> "view", arg |-> 0, status |-> "ok", val |-> 0]
    /\ reads' = {}
    /\ UNCHANGED <<files, lenMemo, loadErr>>
    /\ UNCHANGED <<snapVars, threadVars, regVars, numVars, ownVars>>

\* next() on the generator of the view
ViewNext ==
    /\ itPc \in {"fresh", "iter"}
    /\ LET o == SnapsViewNext(view, itItem, itPos, files, lenMemo)
       IN  /\ res' = [op |-> "next", arg |-> 0, status |-> o.status, val |-> o.val]
           /\ lenMemo' = o.memo
           /\ itItem' = o.k
           /\ itPos' = o.j
           /\ itPc' = IF o.status = "yield" THEN "iter"
                      ELSE IF o.status = "StopIteration" THEN "done" ELSE "failed"
           /\ yielded' = IF o.status = "yield" THEN Append(yielded, o.val) ELSE yielded
           /\ reads' = reads \cup o.read
    /\ UNCHANGED <<files, view, loadErr>>
    /\ UNCHANGED <<snapVars, threadVars, regVars, numVars, ownVars>>

\* the view is dropped
DropView ==
    /\ itPc \in {"done", "failed"}
    /\ view' = <<>>
    /\ itPc' = "none"
    /\ itItem' = 0
    /\ itPos' = 0
    /\ yielded' = <<>>
    /\ res' = NoRes
    /\ reads' = {}
    /\ UNCHANGED <<files, lenMemo, loadErr>>
    /\ UNCHANGED <<snapVars, threadVars, regVars, numVars, ownVars>>

NextRun ==
    \/ \E i \in 0..MaxIdx : CreateDump(i)
    \/ LenOp
    \/ \E i \in -MaxArg..MaxArg : GetItem(i)
    \/ \E items \in Views : MakeView(items)
    \/ ViewNext
    \/ DropView

\* the operations on a run whose simulation has ended
NextLoad ==
    \/ LenOp
    \/ \E i \in -MaxArg..MaxArg : GetItem(i)
    \/ \E items \in Views : MakeView(items)
    \/ ViewNext
    \/ DropView


----------------------------------------------------------------------------
(* Properties of the run *)

MaxOf(S) == CHOOSE m \in S : \A x \in S : x <= m

\* the dump indices 0..9 of the scenario, and its slice 3:20
TenDumps == 0..9
Slice3To20 == SliceItem(<<3>>, <<20>>, <<>>)

\* run[-1], run[12] and list(run[3:20]) of the scenario, on the dumps as they
\* load now
TenDumpsLast == GetItemInt(TenDumps, <<>>, -1)
TenDumpsTwelve == GetItemInt(TenDumps, <<>>, 12)
TenDumps3To20 == ViewList(<<Slice3To20>>, 0, 0, TenDumps, <<>>)

\* C3: with n = len(run), run[i] is the Snap of index i for 0 <= i < n and of
\* index n+i for -n <= i < 0 when the file of that index exists; it raises
\* IndexError when i >= n, when i < -n and when the file is missing.  With
\* files 0..9, run[-1] is snapshot 9 and run[12] raises IndexError.
C3_IntegerIndexing ==
    /\ (res.op = "getitem" /\ lenMemo # <<>>) =>
         LET n == lenMemo[1]
             i == res.arg
         IN  /\ (0 <= i /\ i < n /\ i \in files)
                    => (res.status = "ok" /\ res.val = i)
             /\ (-n <= i /\ i < 0 /\ (n + i) \in files)
                    => (res.status = "ok" /\ res.val = n + i)
             /\ (i >= n \/ i < -n) => res.status = "IndexError"
             /\ (0 <= i /\ i < n /\ i \notin files) => res.status = "IndexError"
             /\ (-n <= i /\ i < 0 /\ (n + i) \notin files)
                    => res.status = "IndexError"
    /\ (res.op = "none" /\ loadErr = NoLoadErr) =>
         /\ TenDumpsLast.status = "ok" /\ TenDumpsLast.val = 9
         /\ TenDumpsTwelve.status = "IndexError"

\* a negative index wrapped to a snapshot other than the first, in a run with a gap
C3_Witness ==
    /\ res.op = "getitem"
    /\ res.arg < 0
    /\ res.status = "ok"
    /\ res.val > 0
    /\ \E g \in 0..MaxIdx : g < res.val /\ g \notin files

\* the indices of range(*sl.indices(n)) whose dump file is on disk, in order
OnDisk(sl, n, fs) ==
    LET present(i) == i \in fs
    IN  SelectSeq(RangeSeq(SliceIndices(sl, n)), present)

IsPrefix(s, t) == Len(s) <= Len(t) /\ SubSeq(t, 1, Len(s)) = s

\* C4: iterating run[a:b:c] yields exactly the Snaps of the indices of
\* range(*slice(a,b,c).indices(len(run))) whose file exists, once each and in
\* that order, and never raises IndexError; with files 0..9, run[3:20] yields
\* snapshots 3..9.
C4_SliceIteration ==
    /\ (Len(view) = 1 /\ view[1].kind = "slice" /\ view[1].step # <<0>>
        /\ lenMemo # <<>>) =>
         /\ itPc = "done" => yielded = OnDisk(view[1], lenMemo[1], files)
         /\ itPc = "iter" => IsPrefix(yielded, OnDisk(view[1], lenMemo[1], files))
         /\ itPc # "failed"
    /\ (Len(view) = 1 /\ view[1].kind = "slice" /\ res.op = "next")
         => res.status # "IndexError"
    /\ (res.op = "none" /\ loadErr = NoLoadErr) =>
         TenDumps3To20 = [status |-> "StopIteration", val |-> <<3, 4, 5, 6, 7, 8, 9>>]

\* a finished slice iteration that yielded a snapshot and skipped a missing one
C4_Witness ==
    /\ itPc = "done"
    /\ Len(view) = 1
    /\ view[1].kind = "slice"
    /\ Len(yielded) >= 1
    /\ Len(yielded) < RangeLen(SliceIndices(view[1], lenMemo[1]))

\* what one item of a tuple yields on its own
ItemYield(item, n, fs) ==
    IF item.kind = "slice" THEN OnDisk(item, n, fs)
    ELSE LET i == IF item.i < 0 THEN item.i + n ELSE item.i
         IN  IF 0 <= i /\ i < n /\ i \in fs THEN <<i>> ELSE <<>>

RECURSIVE Concat(_, _, _)
Concat(items, n, fs) ==
    IF items = <<>> THEN <<>>
    ELSE ItemYield(Head(items), n, fs) \o Concat(Tail(items), n, fs)

NoZeroStep(items) == \A k \in 1..Len(items) : items[k].step # <<0>>

\* C5: iterating run[(item_1, ..., item_k)] yields the concatenation, in tuple
\* order, of what each item yields on its own; an index covered by several
\* items is yielded once per covering item.
C5_TupleIteration ==
    (itPc = "done" /\ lenMemo # <<>> /\ NoZeroStep(view))
        => yielded = Concat(view, lenMemo[1], files)

\* a finished two-item iteration that yielded the same snapshot twice, once
\* through a negative integer
C5_Witness ==
    /\ itPc = "done"
    /\ Len(view) = 2
    /\ view[2].kind = "int"
    /\ view[2].i < 0
    /\ Len(yielded) >= 2
    /\ \E a, b \in 1..Len(yielded) : a < b /\ yielded[a] = yielded[b]

\* C6 as stated: every len(run) returns one plus the highest dump index of the
\* directory as it is at that call
C6_LenIsHighestPlusOne ==
    [][(res' # res /\ res'.op = "len" /\ res'.status = "ok")
          => res'.val = MaxOf(files') + 1]_vars

\* C6 amended: the length is one plus the highest dump index of the directory as
\* it is when the length is first computed, whatever the gaps below it, and
\* every len(run) returns that memoized value.
C6_LenIsHighestPlusOneWhenComputed ==
    [][/\ (lenMemo = <<>> /\ lenMemo' # <<>>) => lenMemo'[1] = MaxOf(files) + 1
       /\ (res' # res /\ res'.op = "len" /\ res'.status = "ok")
            => (lenMemo' # <<>> /\ res'.val = lenMemo'[1])
       /\ lenMemo # <<>> => lenMemo' = lenMemo]_vars

\* len(run) answered for a directory with a gap below its highest dump
C6_Witness ==
    /\ res.op = "len"
    /\ res.status = "ok"
    /\ res.val = MaxOf(files) + 1
    /\ \E g \in 0..MaxIdx : g < res.val /\ g \notin files

\* C7 as stated: with no dump in the directory, len(run), run[i] and the
\* iteration of any view fail
C7_EmptyDirectoryFails ==
    files = {} =>
        /\ res.op \in {"len", "getitem", "next"} => res.status = "ValueError"
        /\ yielded = <<>>

\* C7 amended: with no dump in the directory, len(run), run[i] and the
\* iteration of the run or of any view of at least one item fail; none returns
\* a length, a Snap or an empty sequence.
C7_EmptyDirectoryFailsUnlessEmptyTuple ==
    files = {} =>
        /\ res.op \in {"len", "getitem"} => res.status = "ValueError"
        /\ (res.op = "next" /\ view # <<>>) => res.status = "ValueError"
        /\ yielded = <<>>
        /\ lenMemo = <<>>

\* the iteration of a view of two items failed on a directory without dumps
C7_Witness ==
    /\ files = {}
    /\ res.op = "next"
    /\ Len(view) = 2
    /\ res.status = "ValueError"
    /\ itPc = "failed"

\* C23: once len(run) is computed it never changes for that Run: after a
\* dump of a higher index is written, len(run) returns the same value, run[k]
\* for an index k at or above it raises IndexError although the file of k
\* exists, and run[-1] is the Snap of the index that was last at that time.
C23_LenNeverChanges ==
    [][lenMemo # <<>> =>
        /\ lenMemo' = lenMemo
        /\ (res' # res /\ res'.op = "len") =>
                (res'.status = "ok" /\ res'.val = lenMemo[1])
        /\ (res' # res /\ res'.op = "getitem" /\ res'.arg >= lenMemo[1]) =>
                res'.status = "IndexError"
        /\ (res' # res /\ res'.op = "getitem" /\ res'.arg = -1) =>
                /\ res'.val = lenMemo[1] - 1
                /\ res'.status = IF res'.val \in files THEN "ok" ELSE "IndexError"]_vars

\* run[k] raised IndexError for a dump written after the length was
\* computed, its file being on disk
C23_Witness ==
    /\ lenMemo # <<>>
    /\ res.op = "getitem"
    /\ res.arg >= lenMemo[1]
    /\ res.arg \in files
    /\ res.status = "IndexError"

\* C24: the only failure an iteration turns into a skipped item is the
\* not-found condition of the index (out of range, or no dump file): an
\* iteration that ends normally has yielded every index of its items that
\* is in range and has its file on disk, and a failure of the load of such
\* a file, whatever its type, ends the iteration with that failure.
C24_OnlyNotFoundIsSkipped ==
    /\ (itPc = "done" /\ lenMemo # <<>> /\ NoZeroStep(view))
            => yielded = Concat(view, lenMemo[1], files)
    /\ (itPc \in {"iter", "done"} /\ lenMemo # <<>> /\ NoZeroStep(view))
            => IsPrefix(yielded, Concat(view, lenMemo[1], files))

\* the indices an item of a view stands for on a run of n dumps, in order
ItemIndices(item, n) ==
    IF item.kind = "int" THEN <<NormalizeIdump(item.i, n)>>
    ELSE IF item.step = <<0>> THEN <<>>
    ELSE RangeSeq(SliceIndices(item, n))

\* the indices the iteration of the view has come to: those of the items it
\* is done with and of the current item up to its position (and the one at
\* its position when the iteration failed there)
Reached ==
    LET n == IF lenMemo = <<>> THEN 0 ELSE lenMemo[1]
        cur == IF itItem < Len(view) THEN ItemIndices(view[itItem + 1], n)
               ELSE <<>>
        upto == Min(Len(cur), itPos + (IF itPc = "failed" THEN 1 ELSE 0))
    IN  UNION {{ItemIndices(view[q], n)[x] :
                    x \in 1..Len(ItemIndices(view[q], n))} : q \in 1..itItem}
        \cup {cur[x] : x \in 1..upto}

\* C30: making a view (run[slice], run[tuple]) loads no dump, leaves the
\* memoized count as it was (no scan of the directory) and raises nothing;
\* dumps are loaded only by run[i] for an integer i and by the iteration of
\* a view, and the iteration has loaded only existing dumps of indices it
\* has come to.
C30_ViewsAreLazy ==
    /\ [][res'.op = "view" =>
            (lenMemo' = lenMemo /\ reads' = {} /\ res'.status = "ok")]_vars
    /\ [](reads # {} => res.op \in {"getitem", "next"})
    /\ [](itPc \in {"fresh", "iter", "done", "failed"} =>
            reads \subseteq (Reached \cap files))

\* the iteration of a view of several items has yielded two Snaps and loaded
\* their two dumps, while a dump further on in the view is on disk, not loaded
C30_Witness ==
    /\ itPc = "iter"
    /\ Len(view) > 1
    /\ Len(yielded) = 2
    /\ reads = {yielded[1], yielded[2]}
    /\ yielded[1] # yielded[2]
    /\ files \ reads # {}

----------------------------------------------------------------------------
(* Snap: the raw array of one snapshot, a cached_property of a frozen        *)
(* dataclass.  An array object is named by its ordinal among the arrays      *)
(* built from the dump of that Snap; 0 is "big_array not in __dict__".       *)

\* Snap(self, idump, dump): a new object, nothing cached
NewSnapObject(idump) == [idump |-> idump, arr |-> 0]

\* big_array as a plain property: built anew at each access
BigArrayGetUncached(snap, built) ==
    [val |-> built + 1, arr |-> snap.arr, built |-> built + 1]

\* Snap.big_array, one whole access by a single thread: the cached object, or
\* CachedArray(MusicDumpArray(self.dump, False)) built and stored
BigArrayGet(snap, built) ==
    IF snap.arr # 0
    THEN [val |-> snap.arr, arr |-> snap.arr, built |-> built]
    ELSE [val |-> built + 1, arr |-> built + 1, built |-> built + 1]

RequestKinds == {"raw", "field", "rprof"}

InitSnap ==
    /\ InitSnapIdle

\* run[i] returned a Snap
NewSnap(idump) ==
    /\ Len(snaps) < MaxSnaps
    /\ snaps' = Append(snaps, NewSnapObject(idump))
    /\ hist' = Append(hist, [built |-> 0, seen |-> {}, nreq |-> 0])
    /\ UNCHANGED <<req, runVars, threadVars, regVars, numVars, ownVars>>

\* snap.big_array, snap.field[name] or snap.rprof[name]: each reaches the raw
\* array through the big_array property of the Snap
Request(s, kind) ==
    /\ hist[s].nreq < MaxReq
    /\ LET g == BigArrayGet(snaps[s], hist[s].built)
       IN  /\ snaps' = [snaps EXCEPT ![s].arr = g.arr]
           /\ hist' = [hist EXCEPT ![s] = [built |-> g.built,
                                           seen |-> hist[s].seen \cup {g.val},
                                           nreq |-> hist[s].nreq + 1]]
           /\ req' = [snap |-> s, kind |-> kind, val |-> g.val]
    /\ UNCHANGED <<runVars, threadVars, regVars, numVars, ownVars>>

\* the oldest Snap is garbage
ForgetSnap ==
    /\ snaps # <<>>
    /\ snaps' = Tail(snaps)
    /\ hist' = Tail(hist)
    /\ req' = [snap |-> 0, kind |-> "none", val |-> 0]
    /\ UNCHANGED <<runVars, threadVars, regVars, numVars, ownVars>>

NextSnap ==
    \/ \E i \in 0..MaxIdx : NewSnap(i)
    \/ \E s \in 1..Len(snaps), kind \in RequestKinds : Request(s, kind)
    \/ ForgetSnap


\* C8: for one Snap object the raw array is built from the dump at most once
\* over any sequence of raw-array, field and radial-profile requests, and every
\* request observes that one object.
C8_RawArrayBuiltOnce ==
    \A s \in 1..Len(snaps) :
        /\ hist[s].built <= 1
        /\ Cardinality(hist[s].seen) <= 1
        /\ hist[s].nreq >= 1 => (hist[s].built = 1 /\ hist[s].seen = {snaps[s].arr})

\* one Snap answered three requests, the last a field request, while a second
\* Snap of the same dump has its own array
C8_Witness ==
    /\ Len(snaps) = 2
    /\ snaps[1].idump = snaps[2].idump
    /\ hist[1].nreq = 3
    /\ hist[2].nreq >= 1
    /\ req.kind = "field"
    /\ req.snap = 1

----------------------------------------------------------------------------
(* Snap.big_array reached by several threads: cached_property.__get__ step   *)
(* by step.  Python 3.8 to 3.11 take a lock around the second look and the   *)
(* call; Python 3.12 and later take none.                                    *)

InitConc ==
    /\ snaps = <<NewSnapObject(0)>>
    /\ hist = <<[built |-> 0, seen |-> {}, nreq |-> 0]>>
    /\ req = [snap |-> 0, kind |-> "none", val |-> 0]
    /\ locked \in BOOLEAN
    /\ lockHolder = 0
    /\ tpc = [t \in Threads |-> "idle"]
    /\ tval = [t \in Threads |-> 0]

\* a field request begins
TBegin(t) ==
    /\ tpc[t] = "idle"
    /\ hist[1].nreq < MaxReq
    /\ tpc' = [tpc EXCEPT ![t] = "get"]
    /\ hist' = [hist EXCEPT ![1].nreq = hist[1].nreq + 1]
    /\ UNCHANGED <<snaps, req, locked, lockHolder, tval, runVars, regVars, numVars, ownVars>>

\* val = cache.get(self.attrname, _NOT_FOUND)
TGet(t) ==
    /\ tpc[t] = "get"
    /\ tval' = [tval EXCEPT ![t] = snaps[1].arr]
    /\ tpc' = [tpc EXCEPT ![t] = IF snaps[1].arr # 0 THEN "ret"
                                 ELSE IF locked THEN "lock" ELSE "call"]
    /\ UNCHANGED <<snaps, hist, req, locked, lockHolder, runVars, regVars, numVars, ownVars>>

\* with self.lock: val = cache.get(self.attrname, _NOT_FOUND)
TLock(t) ==
    /\ tpc[t] = "lock"
    /\ lockHolder = 0
    /\ tval' = [tval EXCEPT ![t] = snaps[1].arr]
    /\ lockHolder' = IF snaps[1].arr # 0 THEN 0 ELSE t
    /\ tpc' = [tpc EXCEPT ![t] = IF snaps[1].arr # 0 THEN "ret" ELSE "call"]
    /\ UNCHANGED <<snaps, hist, req, locked, runVars, regVars, numVars, ownVars>>

\* val = self.func(instance)
TCall(t) ==
    /\ tpc[t] = "call"
    /\ tval' = [tval EXCEPT ![t] = hist[1].built + 1]
    /\ hist' = [hist EXCEPT ![1].built = hist[1].built + 1]
    /\ tpc' = [tpc EXCEPT ![t] = "store"]
    /\ UNCHANGED <<snaps, req, locked, lockHolder, runVars, regVars, numVars, ownVars>>

\* cache[self.attrname] = val, and the lock is left
TStore(t) ==
    /\ tpc[t] = "store"
    /\ snaps' = [snaps EXCEPT ![1].arr = tval[t]]
    /\ lockHolder' = IF lockHolder = t THEN 0 ELSE lockHolder
    /\ tpc' = [tpc EXCEPT ![t] = "ret"]
    /\ UNCHANGED <<hist, req, locked, tval, runVars, regVars, numVars, ownVars>>

\* return val
TReturn(t) ==
    /\ tpc[t] = "ret"
    /\ hist' = [hist EXCEPT ![1].seen = hist[1].seen \cup {tval[t]}]
    /\ req' = [snap |-> 1, kind |-> "field", val |-> tval[t]]
    /\ tpc' = [tpc EXCEPT ![t] = "idle"]
    /\ UNCHANGED <<snaps, locked, lockHolder, tval, runVars, regVars, numVars, ownVars>>

NextConc ==
    \E t \in Threads :
        \/ TBegin(t)
        \/ TGet(t)
        \/ TLock(t)
        \/ TCall(t)
        \/ TStore(t)
        \/ TReturn(t)


\* C9: field requests on one Snap that interleave observe the same raw array
\* object, and so does every later request.
C9_InterleavedRequestsSeeOneArray ==
    Cardinality(hist[1].seen) <= 1

----------------------------------------------------------------------------
(* DataFetcher: one registry per subclass, and the resolver.                 *)
(* An outcome is [status, val, axes, calls]: status is "ok" or the exception *)
(* that escapes; val names the array returned, outermost operation first;    *)
(* axes are its axes; calls lists the handlers and structural defaults       *)
(* invoked, in order, each as <<"handler" or "default", kind, name>>.        *)

\* FieldGetter, ProfGetter, TimeAveragedProfGetter, TimeSeriesGetter
Kinds == {"field", "rprof", "rprof_avg", "tseries"}

\* labels of the var axis of the raw array
RawVars == {"density", "e_int_spec", "vel_1", "vel_2"}

\* @FieldGetter.register handlers that build a DerivedFieldArray of raw vars
DerivedHandlers ==
    {"vel_ampl", "vel_square", "ekin", "vr_abs", "vt_abs",
     "vr_normalized", "vt_normalized"}

\* @FieldGetter.register handlers that go through bmdat.eos.derive_arr
EosHandlers == {"log_temp", "log_press", "log_pgas", "entropy", "adiab_grad"}

\* @FieldGetter.register handlers that are 10 ** (the log field)
LogOf == [temp |-> "log_temp", press |-> "log_press", pgas |-> "log_pgas"]
PowHandlers == {"temp", "press", "pgas"}

\* handlers registered after import: one that returns an array of the kind,
\* one that raises KeyError (a lookup that fails while it runs), one that
\* raises another exception, one that returns an array without a time axis
UserHandlers == {"u_ok", "u_key", "u_err", "u_notime"}

\* the closures temp and press that field.cmd registers in FieldGetter; each
\* captures the MusicData of the command, whose parameter file has the keys
\* MusicData.eos reads ("compo") or lacks them ("nokeys")
CmdHandlers(e) ==
    IF e = "compo" THEN [temp |-> "cmd_temp", press |-> "cmd_press"]
    ELSE [temp |-> "cmd_temp_nokeys", press |-> "cmd_press_nokeys"]

Names == RawVars \cup DerivedHandlers \cup EosHandlers \cup PowHandlers
         \cup {"vrms", "nosuch"}

\* the registries once derived_fields is imported
Catalogue ==
    [k \in Kinds |->
        [n \in Names |->
            IF k = "field" /\ n \in DerivedHandlers \cup EosHandlers \cup PowHandlers
            THEN n
            ELSE IF k = "rprof" /\ n = "vrms" THEN n
            ELSE "none"]]

\* a register that writes one dictionary shared by every subclass
RegisterShared(reg, kind, name, h) ==
    [k \in Kinds |-> [reg[k] EXCEPT ![name] = h]]

\* a register that rebinds the registry of the kind to a new dictionary
RegisterFresh(reg, kind, name, h) ==
    [reg EXCEPT ![kind] = [n \in Names |-> IF n = name THEN h ELSE "none"]]

\* a register that keeps the handler a name already has
RegisterKeepFirst(reg, kind, name, h) ==
    IF reg[kind][name] = "none" THEN [reg EXCEPT ![kind][name] = h] ELSE reg

\* DataFetcher.register: cls._handlers[thunk.__name__] = thunk
RegisterIn(reg, kind, name, h) == [reg EXCEPT ![kind][name] = h]

\* data sources: a Snap (no time axis) or a MusicData (time axis), Cartesian
\* or spherical, with an equation of state that can be built ("compo") or a
\* parameter file without the keys MusicData.eos reads ("nokeys"); flag tells
\* what params["geometry"]["cartesian"] is: a boolean here
DataSources ==
    [time : BOOLEAN, cartesian : BOOLEAN, eos : {"compo", "nokeys"},
     flag : {"bool"}]

\* data sources whose parameter file gives geometry.cartesian as an integer
\* (cartesian is then its truth value: 0 or another number) or not at all
MalformedSources ==
    [time : BOOLEAN, cartesian : BOOLEAN, eos : {"compo"}, flag : {"int"}]
    \cup [time : BOOLEAN, cartesian : {FALSE}, eos : {"compo"},
          flag : {"missing"}]

RawAxes(ds) == {"var", "x1", "x2"} \cup (IF ds.time THEN {"time"} ELSE {})
FieldAxes(ds) == RawAxes(ds) \ {"var"}

\* the axes of an array of the given kind on ds
KindAxes(kind, ds) ==
    IF kind = "field" THEN FieldAxes(ds)
    ELSE IF kind = "rprof" THEN FieldAxes(ds) \ {"x2"}
    ELSE IF kind = "rprof_avg" THEN {"x1"}
    ELSE FieldAxes(ds) \ {"x1", "x2"}

Ok(val, axes, calls) ==
    [status |-> "ok", val |-> val, axes |-> axes, calls |-> calls]
Raise(status, calls) ==
    [status |-> status, val |-> <<>>, axes |-> {}, calls |-> calls]

\* bmdat.cartesian (MusicData.cartesian, Snap.cartesian through its run):
\* params["geometry"]["cartesian"], a KeyError when the key is missing;
\* r is what the default computed before it reads the flag
ReadFlag(ds, r) ==
    IF r.status = "ok" /\ ds.flag = "missing" THEN Raise("KeyError", r.calls)
    ELSE r

\* an operation of the labeled array that removes an axis: it fails on an
\* array without that axis
Collapse(op, axis, r) ==
    IF r.status # "ok" THEN r
    ELSE IF axis \notin r.axes THEN Raise("AxisError", r.calls)
    ELSE Ok(<<op, axis>> \o r.val, r.axes \ {axis}, r.calls)

\* an elementwise operation of the labeled array (apply, sqrt)
Apply(op, r) ==
    IF r.status # "ok" THEN r ELSE Ok(<<op>> \o r.val, r.axes, r.calls)

\* slabbed("time", 10)
Slabbed(r) ==
    IF r.status # "ok" THEN r
    ELSE IF "time" \notin r.axes THEN Raise("AxisError", r.calls)
    ELSE Ok(<<"slabbed">> \o r.val, r.axes, r.calls)

\* a field default that answers an array of zeros for a label it does not find
FieldDefaultZeros(name, ds) ==
    IF name \in RawVars
    THEN Ok(<<"xs", name>>, FieldAxes(ds), <<<<"default", "field", name>>>>)
    ELSE Ok(<<"zeros">>, FieldAxes(ds), <<<<"default", "field", name>>>>)

\* FieldGetter.default_getter: bmdat.big_array.xs(self.var_name, "var"); the
\* lookup of a label the var axis does not carry raises KeyError
FieldDefault(name, ds) ==
    IF name \in RawVars
    THEN Ok(<<"xs", name>>, FieldAxes(ds), <<<<"default", "field", name>>>>)
    ELSE Raise("KeyError", <<<<"default", "field", name>>>>)

\* bmdat.eos.derive_arr(bmdat.big_array, var): MusicData.eos reads
\* params["physics"]["zz"], a KeyError when the parameter file lacks it
EosDerive(name, ds, calls) ==
    IF ds.eos = "nokeys" THEN Raise("KeyError", calls)
    ELSE Ok(<<"eos", name>>, FieldAxes(ds), calls)

\* the outcome with the invocation put in front of its calls
Called(call, r) == [r EXCEPT !.calls = <<call>> \o r.calls]

\* the outcome with the calls of an earlier, caught attempt put in front
After(calls, r) == [r EXCEPT !.calls = calls \o r.calls]

RECURSIVE Resolve(_, _, _, _)
RECURSIVE RunHandler(_, _, _, _, _)
RECURSIVE DefaultGetter(_, _, _, _)

\* a __call__ that asks the registry first and falls back only on a miss
ResolveNoFallbackOnRaise(kind, name, ds, reg) ==
    IF reg[kind][name] = "none" THEN DefaultGetter(kind, name, ds, reg)
    ELSE RunHandler(reg[kind][name], kind, name, ds, reg)

\* a __call__ that goes to the structural default without asking the registry
ResolveDefaultOnly(kind, name, ds, reg) == DefaultGetter(kind, name, ds, reg)

\* DataFetcher.__call__ (through _DataGetter.__getitem__): the handler of the
\* registry; on KeyError, from the registry or from the handler while it runs,
\* the structural default
Resolve(kind, name, ds, reg) ==
    IF reg[kind][name] = "none" THEN DefaultGetter(kind, name, ds, reg)
    ELSE LET r == RunHandler(reg[kind][name], kind, name, ds, reg)
         IN  IF r.status = "KeyError"
             THEN After(r.calls, DefaultGetter(kind, name, ds, reg))
             ELSE r

\* the handler h, registered under name in kind, called on ds
RunHandler(h, kind, name, ds, reg) ==
    LET me == <<"handler", kind, name>>
    IN  IF h = "u_ok" THEN Ok(<<"user", kind, name>>, KindAxes(kind, ds), <<me>>)
        ELSE IF h = "u_key" THEN Raise("KeyError", <<me>>)
        ELSE IF h = "u_err" THEN Raise("RuntimeError", <<me>>)
        ELSE IF h = "u_notime"
        THEN Ok(<<"user_notime", kind, name>>, KindAxes(kind, ds) \ {"time"}, <<me>>)
        ELSE IF h \in {"cmd_temp_nokeys", "cmd_press_nokeys"}
        THEN \* mdat.eos.temperature(aog.data): mdat.eos of the command's run
             Raise("KeyError", <<me>>)
        ELSE IF h \in {"cmd_temp", "cmd_press"}
        THEN \* then aog.data, an attribute neither Snap nor MusicData has
             Raise("AttributeError", <<me>>)
        ELSE IF h \in DerivedHandlers
        THEN Ok(<<"derived", h>>, FieldAxes(ds), <<me>>)
        ELSE IF h = "entropy" THEN Apply("pow10", EosDerive(h, ds, <<me>>))
        ELSE IF h \in EosHandlers THEN EosDerive(h, ds, <<me>>)
        ELSE IF h \in PowHandlers
        THEN Apply("pow10", Called(me, Resolve("field", LogOf[h], ds, reg)))
        ELSE \* vrms: bmdat.rprof["vel_square"].sqrt()
             Apply("sqrt", Called(me, Resolve("rprof", "vel_square", ds, reg)))

\* a profile that takes the arithmetic mean over x2 in both geometries
AngularOpMean(ds) == "mean"

\* ProfGetter.default_getter: field.mean("x2") if bmdat.cartesian, else
\* field.collapse(SphericalMidpointQuad1D(grid.grids[1]).average, axis="x2")
AngularOp(ds) == IF ds.cartesian THEN "mean" ELSE "quad_average"

\* a time series that takes the arithmetic mean over x1 in both geometries
RadialOpMean(ds) == "mean"

\* TimeSeriesGetter.default_getter: prof.mean("x1") if bmdat.cartesian, else
\* prof.collapse(np.average(w, weights=d_rad * rad**2), axis="x1")
RadialOp(ds) == IF ds.cartesian THEN "mean" ELSE "volume_average"

\* default_getter of the four subclasses
DefaultGetter(kind, name, ds, reg) ==
    LET me == <<"default", kind, name>>
    IN  IF kind = "field" THEN FieldDefault(name, ds)
        ELSE IF kind = "rprof"
        THEN LET field == Called(me, Resolve("field", name, ds, reg))
                 prof == Collapse(AngularOp(ds), "x2", ReadFlag(ds, field))
             IN  IF prof.status = "ok" /\ "time" \in field.axes
                 THEN Slabbed(prof) ELSE prof
        ELSE IF kind = "rprof_avg"
        THEN LET field == Called(me, Resolve("rprof", name, ds, reg))
             IN  IF "time" \in RawAxes(ds) THEN Collapse("mean", "time", field)
                 ELSE field
        ELSE LET prof == ReadFlag(ds, Called(me, Resolve("rprof", name, ds, reg)))
             IN  IF ds.cartesian THEN Collapse(RadialOp(ds), "x1", prof)
                 ELSE Slabbed(Collapse(RadialOp(ds), "x1", prof))

----------------------------------------------------------------------------
(* The registries and the resolver as a state machine *)

\* names resolved

\* the registrations made after import: each user handler over the raw var
\* density as a field and as a radial profile, and handlers for density and
\* vrms in the other kinds and over the vrms of the catalogue
Registrations ==
    ({"field", "rprof"} \X {"density"} \X UserHandlers)
    \cup ({"rprof", "tseries"} \X {"vrms"} \X {"u_ok", "u_err"})
    \cup ({"rprof_avg", "tseries"} \X {"density"} \X {"u_ok", "u_key"})
ResolveNames == {"density", "vrms", "nosuch", "vel_square", "temp"}

NoRRes ==
    [op |-> "none", kind |-> "none", name |-> "none",
     ds |-> [time |-> FALSE, cartesian |-> FALSE, eos |-> "compo",
             flag |-> "bool"],
     status |-> "none", val |-> <<>>, axes |-> {}, calls |-> <<>>,
     data |-> <<>>]

InitRegIdle ==
    /\ handlers = Catalogue
    /\ nreg = 0
    /\ rres = NoRRes
    /\ lastReg = Catalogue
    /\ simFiles = <<>>

\* a MusicData.sim that lists the directory at every access
SimReadUncached(fs, memo) == <<fs>>

\* MusicData.sim (and big_array, grid, built from it): the dumps of the
\* directory when it is first read, the memoized object afterwards
SimRead(fs, memo) == IF memo = <<>> THEN <<fs>> ELSE memo

\* whether the invocation c of a resolve on ds reads bmdat.big_array or
\* bmdat.grid, which a MusicData builds from its sim
ReadsSim(c, ds, reg) ==
    IF c[1] = "default"
    THEN IF c[2] = "field" THEN TRUE
         ELSE IF c[2] = "rprof"
         THEN ~ds.cartesian /\ ds.flag # "missing"
              /\ Resolve("field", c[3], ds, reg).status = "ok"
         ELSE IF c[2] = "rprof_avg"
         THEN Resolve("rprof", c[3], ds, reg).status = "ok"
         ELSE ~ds.cartesian /\ ds.flag # "missing"
              /\ Resolve("rprof", c[3], ds, reg).status = "ok"
    ELSE LET h == reg[c[2]][c[3]]
         IN  \/ h \in DerivedHandlers
             \/ h \in EosHandlers /\ ds.eos = "compo"

\* the sim of the run after a resolve on ds that made the invocations calls
SimAfter(calls, ds, reg, fs, memo) ==
    IF ds.time /\ \E i \in 1..Len(calls) : ReadsSim(calls[i], ds, reg)
    THEN SimRead(fs, memo) ELSE memo

\* the dumps the values of the array r are read from, for an array of a run
DataOf(r, ds, reg, fs, memo) ==
    IF r.status = "ok" /\ ds.time
       /\ \E i \in 1..Len(r.calls) : ReadsSim(r.calls[i], ds, reg)
    THEN SimRead(fs, memo) ELSE <<>>

\* @K.register on a function named name
Register(kind, name, h) ==
    /\ rres.op = "none"
    /\ nreg < MaxRegs
    /\ handlers' = RegisterIn(handlers, kind, name, h)
    /\ lastReg' = [lastReg EXCEPT ![kind] = [@ EXCEPT ![name] = h]]
    /\ nreg' = nreg + 1
    /\ rres' = [NoRRes EXCEPT !.op = "register", !.kind = kind,
                              !.name = name, !.status = "ok", !.val = <<h>>]
    /\ UNCHANGED <<simFiles, runVars, snapVars, threadVars, numVars, ownVars>>

\* the registrations of the field command: @FieldGetter.register on its
\* closures temp and press, whatever handlers the two names had; e tells
\* whether the parameter file of the command's run has the keys of the eos
CmdRegister(e) ==
    /\ rres.op = "none"
    /\ nreg < MaxRegs
    /\ handlers' = RegisterIn(RegisterIn(handlers, "field", "temp",
                                         CmdHandlers(e).temp),
                              "field", "press", CmdHandlers(e).press)
    /\ lastReg' = [lastReg EXCEPT !["field"] =
                      [@ EXCEPT !["temp"] = CmdHandlers(e).temp,
                                !["press"] = CmdHandlers(e).press]]
    /\ nreg' = nreg + 1
    /\ rres' = [NoRRes EXCEPT !.op = "register", !.kind = "field",
                              !.name = "press", !.status = "ok",
                              !.val = <<CmdHandlers(e).press>>]
    /\ UNCHANGED <<simFiles, runVars, snapVars, threadVars, numVars, ownVars>>

\* ds.field[name], ds.rprof[name], TimeAveragedProfGetter(name)(ds) (also
\* run.rprof_avg[name]) and run.tseries[name]: a time series is asked of a run
ResolveOp(kind, name, ds) ==
    /\ rres.op = "none"
    /\ kind = "tseries" => ds.time
    /\ LET r == Resolve(kind, name, ds, handlers)
       IN  /\ rres' = [op |-> "resolve", kind |-> kind, name |-> name,
                       ds |-> ds, status |-> r.status, val |-> r.val,
                       axes |-> r.axes, calls |-> r.calls,
                       data |-> DataOf(r, ds, handlers, files, simFiles)]
           /\ simFiles' = SimAfter(r.calls, ds, handlers, files, simFiles)
    /\ UNCHANGED <<handlers, nreg, lastReg, runVars, snapVars, threadVars, numVars, ownVars>>

\* the caller is done with what it got
DropResult ==
    /\ rres.op # "none"
    /\ rres' = NoRRes
    /\ UNCHANGED <<handlers, nreg, lastReg, simFiles, runVars, snapVars, threadVars, numVars, ownVars>>

NextResolve ==
    \/ \E g \in Registrations : Register(g[1], g[2], g[3])
    \/ \E e \in {"compo", "nokeys"} : CmdRegister(e)
    \/ \E kind \in Kinds, name \in ResolveNames, ds \in DataSources :
            ResolveOp(kind, name, ds)
    \/ DropResult

\* registrations and resolves on data sources of any geometry flag
NextFlag ==
    \/ \E g \in Registrations : Register(g[1], g[2], g[3])
    \/ \E kind \in Kinds, name \in ResolveNames,
          ds \in DataSources \cup MalformedSources :
            ResolveOp(kind, name, ds)
    \/ DropResult

----------------------------------------------------------------------------
(* Properties of the registries and the resolver *)

HasCall(calls, c) == \E k \in 1..Len(calls) : calls[k] = c

\* C1: when a handler is registered for the name in the kind, resolve invokes
\* it on the data source, returns its outcome and does not invoke the
\* structural default of the kind, also for a name that is a raw var label.
C1_RegisteredHandlerWins ==
    (rres.op = "resolve" /\ handlers[rres.kind][rres.name] # "none") =>
        LET h == RunHandler(handlers[rres.kind][rres.name], rres.kind,
                            rres.name, rres.ds, handlers)
        IN  /\ rres.calls[1] = <<"handler", rres.kind, rres.name>>
            /\ rres.status = h.status
            /\ rres.val = h.val
            /\ ~HasCall(rres.calls, <<"default", rres.kind, rres.name>>)

\* the kinds whose registry a resolve of the kind consults for the name
Consulted(kind) ==
    IF kind = "field" THEN {"field"}
    ELSE IF kind = "rprof" THEN {"rprof", "field"}
    ELSE {kind, "rprof", "field"}

\* C2: in each of the four kinds, resolving a name with no handler in any
\* registry consulted and absent from the raw var labels raises KeyError
\* (Not-Found); it returns no array.
C2_UnknownNameNotFound ==
    (/\ rres.op = "resolve"
     /\ rres.name \notin RawVars
     /\ \A k \in Consulted(rres.kind) : handlers[k][rres.name] = "none")
        => (rres.status = "KeyError" /\ rres.val = <<>>)

\* a time series of an unknown name was asked for, after registrations that
\* do not concern it
C2_Witness ==
    /\ rres.op = "resolve"
    /\ rres.kind = "tseries"
    /\ rres.name = "nosuch"
    /\ rres.ds.time
    /\ nreg = MaxRegs
    /\ rres.status = "KeyError"

\* C10: the four kinds have independent registries: a registration changes
\* the registry of one kind only, and a resolve of a kind starts from that
\* kind's own handler or structural default.  vrms is registered only as a
\* radial profile, so resolve(Field, "vrms", ds) is the field default.
C10_IndependentRegistries ==
    /\ [](rres.op = "resolve" =>
            /\ rres.calls[1] =
                 <<IF handlers[rres.kind][rres.name] = "none" THEN "default"
                   ELSE "handler", rres.kind, rres.name>>
            /\ (rres.kind = "field" /\ rres.name = "vrms"
                /\ handlers["field"]["vrms"] = "none")
                  => (/\ rres.calls = <<<<"default", "field", "vrms">>>>
                      /\ rres.status = "KeyError"))
    /\ [](nreg = 0 => \A k \in Kinds : (handlers[k]["vrms"] # "none") <=> (k = "rprof"))
    /\ [][\A k \in Kinds :
            handlers'[k] # handlers[k] =>
                \A k2 \in Kinds \ {k} : handlers'[k2] = handlers[k2]]_vars

\* the field vrms was resolved by the field default while vrms had handlers
\* as a radial profile and, registered after import, as a time series
C10_Witness ==
    /\ rres.op = "resolve"
    /\ rres.kind = "field"
    /\ rres.name = "vrms"
    /\ handlers["field"]["vrms"] = "none"
    /\ handlers["rprof"]["vrms"] = "vrms"
    /\ handlers["tseries"]["vrms"] = "u_ok"
    /\ rres.calls = <<<<"default", "field", "vrms">>>>

\* C11: after any sequence of registrations each kind's registry holds, for
\* each name, the handler of the most recent registration of that name in
\* that kind and no other: a registration over a name that has a handler
\* raises nothing and replaces it, and a later resolve of the name invokes
\* the new handler (its outcome is the outcome when it is not a KeyError).
C11_LastRegistrationWins ==
    /\ \A k \in Kinds, n \in Names : handlers[k][n] = lastReg[k][n]
    /\ rres.op = "register" =>
            /\ rres.status = "ok"
            /\ handlers[rres.kind][rres.name] = rres.val[1]
    /\ (rres.op = "resolve" /\ lastReg[rres.kind][rres.name] # "none") =>
            LET h == RunHandler(lastReg[rres.kind][rres.name], rres.kind,
                                rres.name, rres.ds, handlers)
            IN  /\ rres.calls[1] = <<"handler", rres.kind, rres.name>>
                /\ h.status # "KeyError" =>
                        (rres.status = h.status /\ rres.val = h.val)

\* the radial profile vrms was resolved after two registrations over the
\* vrms of the catalogue, the second of which returns an array
C11_Witness ==
    /\ rres.op = "resolve"
    /\ rres.kind = "rprof"
    /\ rres.name = "vrms"
    /\ nreg = 2
    /\ \A k \in Kinds, n \in Names :
            (k # "rprof" \/ n # "vrms") => handlers[k][n] = Catalogue[k][n]
    /\ lastReg["rprof"]["vrms"] = "u_ok"
    /\ rres.val = <<"user", "rprof", "vrms">>

\* the array expression without its chunking marks
Unslab(val) == SelectSeq(val, LAMBDA x : x # "slabbed")

\* the structural default of the kind was invoked for the name resolved
DefaultRan == HasCall(rres.calls, <<"default", rres.kind, rres.name>>)

\* C13: the radial-profile default for X resolves the field X and collapses
\* its x2 axis, by the angular quadrature average on a spherical data source
\* and by the arithmetic mean on a Cartesian one; the result has every axis
\* of the field except x2 (a failure of the field resolve is the outcome).
C13_RadialProfileDefault ==
    (rres.op = "resolve" /\ rres.kind = "rprof" /\ DefaultRan) =>
        LET F == Resolve("field", rres.name, rres.ds, handlers)
        IN  IF F.status = "ok"
            THEN /\ rres.status = "ok"
                 /\ Unslab(rres.val) =
                      <<IF rres.ds.cartesian THEN "mean" ELSE "quad_average",
                        "x2">> \o F.val
                 /\ rres.axes = F.axes \ {"x2"}
            ELSE rres.status = F.status /\ rres.val = <<>>

\* the radial profile of a raw var of a spherical run came from the default
C13_Witness ==
    /\ rres.op = "resolve"
    /\ rres.kind = "rprof"
    /\ rres.name = "density"
    /\ ~rres.ds.cartesian
    /\ rres.ds.time
    /\ rres.calls = <<<<"default", "rprof", "density">>,
                      <<"default", "field", "density">>>>
    /\ rres.axes = {"time", "x1"}

\* C14: the time-averaged-profile default for X returns the mean over time
\* of the resolved radial profile of X when that profile has a time axis (the
\* result has none), and the profile unchanged when it has no time axis;
\* also for a name with a registered radial-profile handler.
C14_TimeAverageFollowsProfileAxes ==
    (rres.op = "resolve" /\ rres.kind = "rprof_avg" /\ DefaultRan) =>
        LET P == Resolve("rprof", rres.name, rres.ds, handlers)
        IN  P.status = "ok" =>
                /\ rres.status = "ok"
                /\ "time" \notin rres.axes
                /\ IF "time" \in P.axes
                   THEN rres.val = <<"mean", "time">> \o P.val
                        /\ rres.axes = P.axes \ {"time"}
                   ELSE rres.val = P.val /\ rres.axes = P.axes

\* C15: the time-series default for X resolves the radial profile of X (an
\* array over time and x1) and collapses its x1 axis, by the average weighted
\* with cell width times squared radius on a spherical data source and by
\* the arithmetic mean on a Cartesian one; the result has the time axis only.
C15_TimeSeriesDefault ==
    (rres.op = "resolve" /\ rres.kind = "tseries" /\ DefaultRan) =>
        LET P == Resolve("rprof", rres.name, rres.ds, handlers)
        IN  (P.status = "ok" /\ P.axes = {"time", "x1"}) =>
                /\ rres.status = "ok"
                /\ Unslab(rres.val) =
                     <<IF rres.ds.cartesian THEN "mean" ELSE "volume_average",
                       "x1">> \o Unslab(P.val)
                /\ rres.axes = {"time"}

\* the time series of vrms on a spherical run: the default over the handler
\* of the radial profile
C15_Witness ==
    /\ rres.op = "resolve"
    /\ rres.kind = "tseries"
    /\ rres.name = "vrms"
    /\ ~rres.ds.cartesian
    /\ rres.status = "ok"
    /\ rres.calls[1] = <<"default", "tseries", "vrms">>
    /\ rres.calls[2] = <<"handler", "rprof", "vrms">>
    /\ rres.axes = {"time"}

\* C20: when a handler is registered for the name in the kind, a failure
\* raised while it runs, a KeyError included, is the outcome of the resolve:
\* the structural default is not invoked and no array is returned.
C20_HandlerFailurePropagates ==
    (rres.op = "resolve" /\ handlers[rres.kind][rres.name] # "none") =>
        LET h == RunHandler(handlers[rres.kind][rres.name], rres.kind,
                            rres.name, rres.ds, handlers)
        IN  h.status # "ok" =>
                /\ rres.status = h.status
                /\ rres.val = <<>>
                /\ ~DefaultRan

\* the resolver on a run whose simulation goes on writing dumps
NextSim ==
    \/ \E i \in 0..MaxIdx : CreateDump(i)
    \/ \E e \in {"compo", "nokeys"} : CmdRegister(e)
    \/ \E kind \in Kinds, name \in ResolveNames, ds \in DataSources :
            ResolveOp(kind, name, ds)
    \/ DropResult

\* C12: with no registration in between, a second resolve(kind, name, ds) on
\* the same data source yields what the first one yielded: the same outcome,
\* the same array expression and axes, read from the same dumps; this for
\* every kind and name, also when the simulation wrote a dump in between.
C12_ResolveTwiceSame ==
    rres.op = "resolve" =>
        LET again == Resolve(rres.kind, rres.name, rres.ds, handlers)
        IN  /\ again.status = rres.status
            /\ again.val = rres.val
            /\ again.axes = rres.axes
            /\ DataOf(again, rres.ds, handlers, files, simFiles) = rres.data
            /\ SimAfter(again.calls, rres.ds, handlers, files, simFiles) = simFiles

\* a radial profile of the run was resolved, and the simulation has written
\* a dump since the sim of the run was built
C12_Witness ==
    /\ rres.op = "resolve"
    /\ rres.kind = "rprof"
    /\ rres.ds.time
    /\ rres.status = "ok"
    /\ rres.data # <<>>
    /\ rres.data = simFiles
    /\ simFiles[1] # files

----------------------------------------------------------------------------
(* The values of the arrays.  A number is (n / d) * sqrt(root), a record      *)
(* [n, d, root] with d > 0 and n / d in lowest terms; root = 1 for a          *)
(* rational.  An array is [axes, times, at]: at maps each point <<t, i, j>>   *)
(* (time, x1, x2 indices, 0 for an axis the array does not have) to a number, *)
(* times are the time indices it covers.  Rounding of floats is not modelled. *)

Abs(n) == IF n < 0 THEN -n ELSE n

\* the function f with all its values computed
Strict(f) == f @@ <<>>

RECURSIVE Gcd(_, _)
Gcd(a, b) == IF b = 0 THEN a ELSE Gcd(b, a % b)

\* n / d in lowest terms (d # 0)
Frac(n, d) ==
    LET g == Gcd(Abs(n), Abs(d))
        sg == IF d < 0 THEN -1 ELSE 1
    IN  [n |-> sg * (n \div g), d |-> sg * (d \div g), root |-> 1]

Rat(n) == [n |-> n, d |-> 1, root |-> 1]

\* x + y, x * y, x / y of rationals
Add(x, y) == Frac(x.n * y.d + y.n * x.d, x.d * y.d)
Mul(x, y) == Frac(x.n * y.n, x.d * y.d)
Div(x, y) == Frac(x.n * y.d, x.d * y.n)

\* the integer square root of a natural number
ISqrt(n) == CHOOSE k \in 0..n : k * k <= n /\ n < (k + 1) * (k + 1)
IsSquare(n) == ISqrt(n) * ISqrt(n) = n

\* np.sqrt of a rational x >= 0: a rational when x is a square, a surd if not
Sqrt(x) ==
    IF IsSquare(x.n) /\ IsSquare(x.d)
    THEN [n |-> ISqrt(x.n), d |-> ISqrt(x.d), root |-> 1]
    ELSE [n |-> 1, d |-> x.d, root |-> x.n * x.d]

\* the square of a number
Square(x) == Frac(x.n * x.n * x.root, x.d * x.d)

\* vel_ampl: lambda vel_1, vel_2: np.sqrt(vel_1**2 + vel_2**2)
VelAmpl(vel_1, vel_2) == Sqrt(Add(Mul(vel_1, vel_1), Mul(vel_2, vel_2)))

\* vel_square: lambda vel_1, vel_2: vel_1**2 + vel_2**2
VelSquare(vel_1, vel_2) == Add(Mul(vel_1, vel_1), Mul(vel_2, vel_2))

\* a kinetic energy without the factor one half
EkinNoHalf(rho, vel_1, vel_2) ==
    Mul(rho, Add(Mul(vel_1, vel_1), Mul(vel_2, vel_2)))

\* ekin: lambda rho, vel_1, vel_2: 0.5 * rho * (vel_1**2 + vel_2**2)
Ekin(rho, vel_1, vel_2) ==
    Mul(Mul(Frac(1, 2), rho), Add(Mul(vel_1, vel_1), Mul(vel_2, vel_2)))

\* vr_abs, vt_abs: np.abs
NpAbs(x) == [x EXCEPT !.n = Abs(x.n)]

\* the sum of the numbers f[k], k in the set S of indices, by halves
RECURSIVE SumOver(_, _)
SumOver(f, S) ==
    IF S = {} THEN Rat(0)
    ELSE LET lo == CHOOSE x \in S : \A y \in S : x <= y
             hi == CHOOSE x \in S : \A y \in S : y <= x
             mid == (lo + hi) \div 2
         IN  IF lo = hi THEN f[lo]
             ELSE Add(SumOver(f, {x \in S : x <= mid}),
                      SumOver(f, {x \in S : x > mid}))

\* the sum of the numbers f[k], k in DOMAIN f
SumFn(f) == SumOver(f, DOMAIN f)

\* np.mean
NpMean(vals) == Div(SumFn(vals), Rat(Cardinality(DOMAIN vals)))

\* np.average(vals, weights=wts): sum(wts * vals) / sum(wts)
NpAverage(vals, wts) ==
    Div(SumFn([k \in DOMAIN vals |-> Mul(wts[k], vals[k])]), SumFn(wts))

\* a quadrature that integrates over x2 and does not divide by the measure
QuadAverageUnnormalised(vals, w) ==
    SumFn([j \in DOMAIN vals |-> Mul(Rat(w.w2[j]), vals[j])])

\* SphericalMidpointQuad1D(bmdat.grid.grids[1]).average: the average over x2
\* weighted by the quadrature weights of the cells
QuadAverage(vals, w) == NpAverage(vals, [j \in DOMAIN vals |-> Rat(w.w2[j])])

\* a radial average normalised by the cell widths alone
VolumeAverageWidthNorm(vals, w) ==
    Div(SumFn([i \in DOMAIN vals |->
                  Mul(Rat(w.dr[i] * w.rc[i] * w.rc[i]), vals[i])]),
        SumFn([i \in DOMAIN vals |-> Rat(w.dr[i])]))

\* lambda w: np.average(w, weights=d_rad * rad**2), d_rad the cell widths and
\* rad the cell centers of grid.grids[0]
VolumeAverage(vals, w) ==
    NpAverage(vals, [i \in DOMAIN vals |-> Rat(w.dr[i] * w.rc[i] * w.rc[i])])

\* the points of an array with the given axes over the time indices win
Pts(axes, w, win) ==
    {<<t, i, j>> :
        t \in (IF "time" \in axes THEN win ELSE {0}),
        i \in (IF "x1" \in axes THEN 1..w.n1 ELSE {0}),
        j \in (IF "x2" \in axes THEN 1..w.n2 ELSE {0})}

\* the raw array: the value of the var at a cell
RawAt(w, name, p) ==
    Rat(w.base[name] + w.grad[1] * p[1] + w.grad[2] * p[2] + w.grad[3] * p[3])

\* the data source the world is: a Snap when it has no time step
SourceOf(w) ==
    [time |-> w.nt > 0, cartesian |-> w.cart, eos |-> "compo", flag |-> "bool"]

\* DerivedFieldArray(bmdat.big_array, "var", [...], f) at a cell
DerivedAt(h, w, p) ==
    LET rho == RawAt(w, "density", p)
        vel_1 == RawAt(w, "vel_1", p)
        vel_2 == RawAt(w, "vel_2", p)
    IN  IF h = "vel_ampl" THEN VelAmpl(vel_1, vel_2)
        ELSE IF h = "vel_square" THEN VelSquare(vel_1, vel_2)
        ELSE IF h = "ekin" THEN Ekin(rho, vel_1, vel_2)
        ELSE IF h = "vr_abs" THEN NpAbs(vel_1)
        ELSE NpAbs(vel_2)

AxisPos(axis) == IF axis = "time" THEN 1 ELSE IF axis = "x1" THEN 2 ELSE 3

\* collapse(f, axis) and mean(axis): f over the values along the axis, at
\* each point of the other axes
Reduce(op, axis, src, w) ==
    LET idx == IF axis = "time" THEN src.times
              ELSE IF axis = "x1" THEN 1..w.n1 ELSE 1..w.n2
        axes == src.axes \ {axis}
        along(q) == Strict([k \in idx |-> src.at[[q EXCEPT ![AxisPos(axis)] = k]]])
    IN  [axes |-> axes,
         times |-> IF axis = "time" THEN {} ELSE src.times,
         at |-> Strict([q \in Pts(axes, w, src.times) |->
                    IF op = "mean" THEN NpMean(along(q))
                    ELSE IF op = "sum" THEN SumFn(along(q))
                    ELSE IF op = "quad_average" THEN QuadAverage(along(q), w)
                    ELSE VolumeAverage(along(q), w)])]

\* chunks counted by rounding down: past the first, a last chunk shorter
\* than size is left out
ChunksFloor(win, size) ==
    LET lo == CHOOSE t \in win : \A u \in win : t <= u
        n == Cardinality(win) \div size
    IN  {{t \in win : lo + k * size <= t /\ t < lo + (k + 1) * size} :
            k \in 0..((IF n = 0 THEN 1 ELSE n) - 1)}

\* slabbed("time", size): the contiguous chunks of the time axis, each of
\* size indices but the last
Chunks(win, size) ==
    LET lo == CHOOSE t \in win : \A u \in win : t <= u
    IN  {{t \in win : lo + k * size <= t /\ t < lo + (k + 1) * size} :
            k \in 0..((Cardinality(win) - 1) \div size)}

\* the chunk results put together along time
Assemble(parts) ==
    LET cs == DOMAIN parts
        any == CHOOSE c \in cs : TRUE
    IN  [axes |-> parts[any].axes,
         times |-> UNION {parts[c].times : c \in cs},
         at |-> Strict([p \in UNION {DOMAIN parts[c].at : c \in cs} |->
                    parts[CHOOSE c \in cs : p[1] \in parts[c].times].at[p]])]

\* the array the expression val denotes on the world w, over the time
\* indices win: a slabbed array is evaluated chunk by chunk
RECURSIVE Eval(_, _, _)
Eval(val, w, win) ==
    LET op == val[1]
    IN  IF op = "xs"
        THEN [axes |-> FieldAxes(SourceOf(w)), times |-> win,
              at |-> Strict([p \in Pts(FieldAxes(SourceOf(w)), w, win) |->
                         RawAt(w, val[2], p)])]
        ELSE IF op = "derived"
        THEN [axes |-> FieldAxes(SourceOf(w)), times |-> win,
              at |-> Strict([p \in Pts(FieldAxes(SourceOf(w)), w, win) |->
                         DerivedAt(val[2], w, p)])]
        ELSE IF op = "slabbed"
        THEN Assemble(Strict([c \in Chunks(win, SlabSize) |->
                                 Eval(Tail(val), w, c)]))
        ELSE IF op = "sqrt"
        THEN LET src == Eval(Tail(val), w, win)
             IN  [src EXCEPT !.at = Strict([p \in DOMAIN src.at |->
                                                Sqrt(src.at[p])])]
        ELSE Reduce(op, val[2], Eval(SubSeq(val, 3, Len(val)), w, win), w)

----------------------------------------------------------------------------
(* Evaluating what the resolver returns, on small grids *)

\* the raw vars the evaluated arrays are made of
NumVars == {"density", "vel_1", "vel_2"}

\* quadrature weights, cell widths and cell-center radii
Weights == {1, 3}
Unit == [k \in 1..MaxCells |-> 1]

\* a grid of MaxCells by MaxCells cells with nt time steps (0: a Snap); the
\* raw var v is base[v] + grad[1] * t + grad[2] * i + grad[3] * j at the
\* cell <<t, i, j>>
WorldOf(nt, cart, base, grad, w2, dr, rc) ==
    [nt |-> nt, n1 |-> MaxCells, n2 |-> MaxCells, cart |-> cart,
     base |-> base, grad |-> grad, w2 |-> w2, dr |-> dr, rc |-> rc]

\* density 2, vel_1 3, vel_2 4
Base234 == [v \in NumVars |->
               IF v = "density" THEN 2 ELSE IF v = "vel_1" THEN 3 ELSE 4]

\* worlds that vary the raw values, on a uniform grid
ValueWorlds ==
    {WorldOf(nt, cart,
             [v \in NumVars |-> IF v = "density" THEN rho
                                ELSE IF v = "vel_1" THEN v1 ELSE v2],
             grad, Unit, Unit, Unit) :
        nt \in {0, 2}, cart \in BOOLEAN, rho \in {1, 2}, v1 \in {-3, 0, 3},
        v2 \in {0, 4}, grad \in {<<0, 0, 0>>, <<1, 1, 1>>}}

\* worlds that vary the quadrature weights along x2
AngularWorlds ==
    {WorldOf(nt, cart, Base234, grad, w2, Unit, Unit) :
        nt \in {0, 2}, cart \in BOOLEAN,
        grad \in {<<0, 0, 0>>, <<1, 1, 0>>}, w2 \in [1..MaxCells -> Weights]}

\* worlds that vary the cell widths and cell-center radii along x1
RadialWorlds ==
    {WorldOf(nt, cart, Base234, grad, Unit, dr, rc) :
        nt \in {1, 2}, cart \in BOOLEAN,
        grad \in {<<0, 0, 0>>, <<1, 0, 1>>},
        dr \in [1..MaxCells -> Weights], rc \in [1..MaxCells -> Weights]}

\* worlds that vary the length of the time axis, up to MaxChunks chunks
TimeWorlds ==
    {WorldOf(nt, cart, Base234, grad, Unit, Unit, Unit) :
        nt \in 1..(MaxChunks * SlabSize), cart \in BOOLEAN,
        grad \in {<<1, 0, 0>>, <<1, 1, 1>>}}

Worlds == ValueWorlds \cup AngularWorlds \cup RadialWorlds \cup TimeWorlds

NoOut == [kind |-> "none", name |-> "none", status |-> "none",
          axes |-> {}, times |-> {}, at |-> <<>>]

\* no array is evaluated
InitNumIdle ==
    /\ world = WorldOf(0, FALSE, Base234, <<0, 0, 0>>, Unit, Unit, Unit)
    /\ out = NoOut

InitNum ==
    /\ world \in Worlds
    /\ out = NoOut

\* the names evaluated: raw vars and fields derived from raw vars
EvalNames(kind) ==
    IF kind = "field" THEN {"density", "vel_ampl", "vel_square", "ekin"}
    ELSE {"density", "vel_square", "ekin"}

\* ds.field[name].array(), ds.rprof[name].array(), ...: resolve with the
\* registries of the catalogue, then evaluate the array
Compute(kind, name) ==
    /\ out = NoOut
    /\ kind = "tseries" => world.nt > 0
    /\ LET r == Resolve(kind, name, SourceOf(world), Catalogue)
           a == Eval(r.val, world, 1..world.nt)
       IN  out' = IF r.status = "ok"
                  THEN [kind |-> kind, name |-> name, status |-> "ok",
                        axes |-> a.axes, times |-> a.times, at |-> a.at]
                  ELSE [NoOut EXCEPT !.kind = kind, !.name = name,
                                     !.status = r.status]
    /\ UNCHANGED <<world, runVars, snapVars, threadVars, regVars, ownVars>>

\* the caller is done with the array
DropArray ==
    /\ out # NoOut
    /\ out' = NoOut
    /\ UNCHANGED <<world, runVars, snapVars, threadVars, regVars, ownVars>>

NextNum ==
    \/ \E kind \in Kinds : \E name \in EvalNames(kind) : Compute(kind, name)
    \/ DropArray

\* C21: resolve(Field, name, ds) for temp and press is a function of ds
\* alone, computed with the equation of state and the raw array of ds: its
\* outcome is the one the handlers of the catalogue give on ds, however
\* often the field command has been invoked before.
C21_FieldHandlersPure ==
    (rres.op = "resolve" /\ rres.kind = "field"
        /\ rres.name \in {"temp", "press"}) =>
        LET r == Resolve("field", rres.name, rres.ds, Catalogue)
        IN  /\ rres.status = r.status
            /\ rres.val = r.val
            /\ rres.status = "ok" =>
                    rres.val = <<"pow10", "eos", LogOf[rres.name]>>

\* the kind a structural default takes its input from
LowerKind(kind) == IF kind = "rprof" THEN "field" ELSE "rprof"

\* the radial profile vrms of the catalogue, without its chunking marks
VrmsProfile(ds) == <<"sqrt", AngularOp(ds), "x2", "derived", "vel_square">>

\* C22: a structural default asks the resolver of the lower kind: where the
\* lower kind has a handler for the name, the invocation that follows the
\* default is that handler; the time series and the time-averaged profile
\* of vrms are made of the vrms handler's profile and the radial profile of
\* vel_square is made of the vel_square handler's field.
C22_DefaultsUseLowerResolver ==
    rres.op = "resolve" =>
        /\ \A k \in 1..Len(rres.calls) :
                LET c == rres.calls[k]
                IN  (c[1] = "default" /\ c[2] # "field"
                        /\ handlers[LowerKind(c[2])][c[3]] # "none") =>
                        /\ k < Len(rres.calls)
                        /\ rres.calls[k + 1] = <<"handler", LowerKind(c[2]), c[3]>>
        /\ (rres.name = "vrms" /\ rres.kind \in {"tseries", "rprof_avg"}
                /\ handlers[rres.kind]["vrms"] = "none"
                /\ handlers["rprof"]["vrms"] = "vrms" /\ rres.ds.time) =>
                /\ rres.status = "ok"
                /\ Unslab(rres.val) =
                     (IF rres.kind = "tseries" THEN <<RadialOp(rres.ds), "x1">>
                      ELSE <<"mean", "time">>) \o VrmsProfile(rres.ds)
        /\ (rres.name = "vel_square" /\ rres.kind = "rprof") =>
                /\ rres.status = "ok"
                /\ Unslab(rres.val) =
                     <<AngularOp(rres.ds), "x2", "derived", "vel_square">>

\* the time series of vrms was resolved on a spherical run: the default of
\* the time series, then the vrms handler of the radial profiles
C22_Witness ==
    /\ rres.op = "resolve"
    /\ rres.kind = "tseries"
    /\ rres.name = "vrms"
    /\ ~rres.ds.cartesian
    /\ rres.status = "ok"
    /\ handlers["rprof"]["vrms"] = "vrms"
    /\ Len(rres.calls) >= 2
    /\ rres.calls[1] = <<"default", "tseries", "vrms">>
    /\ rres.calls[2] = <<"handler", "rprof", "vrms">>

\* C27: a result of the radial-profile default or of the time-series default
\* with a time axis is the chunked array (slabbed along time), on a spherical
\* and on a Cartesian data source alike; a result without a time axis is not
\* chunked.
C27_DefaultsWithTimeAreSlabbed ==
    (rres.op = "resolve" /\ rres.kind \in {"rprof", "tseries"}
        /\ DefaultRan /\ rres.status = "ok") =>
        IF "time" \in rres.axes
        THEN rres.val[1] = "slabbed"
        ELSE rres.val[1] # "slabbed"

\* C28: on a data source whose geometry flag is not a boolean or is missing,
\* a resolve that reaches the radial-profile default or the time-series
\* default fails; it is never answered as if the source were spherical or
\* Cartesian.
C28_MalformedFlagIsFatal ==
    (rres.op = "resolve" /\ rres.kind \in {"rprof", "tseries"}
        /\ DefaultRan /\ rres.ds.flag # "bool") =>
        rres.status # "ok"

\* the names that have a handler in the registry of the kind
Registered(reg, kind) == {n \in Names : reg[kind][n] # "none"}

\* C29: no register or resolve step removes a name from the registry of any
\* kind, and a resolve step, whether a handler answered, the default did,
\* or it failed, leaves the four registries as they were.
C29_RegistriesNeverShrink ==
    [][/\ \A k \in Kinds : Registered(handlers, k) \subseteq Registered(handlers', k)
       /\ rres'.op = "resolve" => handlers' = handlers]_vars

\* registrations were made after import and a resolve then failed, one
\* fell back to the default after a handler raised KeyError
C29_Witness ==
    /\ nreg = MaxRegs
    /\ handlers # Catalogue
    /\ rres.op = "resolve"
    /\ rres.status # "ok"
    /\ Len(rres.calls) > 1
    /\ rres.calls[1][1] = "handler"
    /\ rres.calls[2][1] = "default"

----------------------------------------------------------------------------
(* What a Snap takes from its run: eos, geometry flag, grid, raw array *)

\* the parameter file: whether it has physics.zz, physics.yy and the
\* namelist scalars, the value of scalars.nscalars (0 also when the key is
\* absent), and geometry.cartesian
Confs ==
    [zz : BOOLEAN, yy : BOOLEAN, section : BOOLEAN, nscalars : 0..MaxScalars,
     cartesian : BOOLEAN]

Attrs == {"eos", "cartesian", "grid", "big_array"}

NoAcc == [on |-> "none", idump |-> 0, attr |-> "none", status |-> "none",
          val |-> <<>>]

\* the parameter file of the runs of the other specifications
InitOwnIdle ==
    /\ conf = [zz |-> TRUE, yy |-> TRUE, section |-> TRUE, nscalars |-> 0,
               cartesian |-> FALSE]
    /\ eosMemo = <<>>
    /\ acc = NoAcc

InitOwn ==
    /\ conf \in Confs
    /\ eosMemo = <<>>
    /\ acc = NoAcc

\* the raw vars that feed the lookup of an equation of state: derive_arr of
\* MesaCstMetalEos and of MesaCstCompoEos
EosVars(variant) ==
    IF variant = "metal" THEN <<"density", "e_int_spec", "scalar">>
    ELSE <<"density", "e_int_spec">>

\* MusicData.eos: the memoized instance, or params["physics"]["zz"], then
\* params["scalars"].get("nscalars", 0) > 0: MesaCstMetalEos(metallicity), a
\* dataclass of two fields called with one argument (TypeError); else
\* MesaCstCompoEos(metallicity, params["physics"]["yy"])
EosCall(c, memo) ==
    IF memo # <<>> THEN [status |-> "ok", val |-> memo[1]]
    ELSE IF ~c.zz \/ ~c.section THEN [status |-> "KeyError", val |-> <<>>]
    ELSE IF c.nscalars > 0 THEN [status |-> "TypeError", val |-> <<>>]
    ELSE IF ~c.yy THEN [status |-> "KeyError", val |-> <<>>]
    ELSE [status |-> "ok", val |-> <<"eos", "compo", 1>>]

\* the cache after an access: an exception caches nothing
EosMemoAfter(c, memo) ==
    IF EosCall(c, memo).status = "ok" THEN <<EosCall(c, memo).val>> ELSE memo

\* MusicData.cartesian: params["geometry"]["cartesian"]
CartesianOf(c) == <<"flag", IF c.cartesian THEN "cartesian" ELSE "spherical">>

\* MusicData.grid: self.sim.grid, and MusicData.big_array:
\* self.sim.big_array(), objects of the sim built from the dumps
RunGrid(dumps) == <<"grid", "sim", dumps>>
RunBigArray(dumps) == <<"big_array", "sim", dumps>>

\* a Snap.grid that hands out the grid of the run
SnapGridOfRun(idump, dumps) == RunGrid(dumps)

\* Snap.grid: self.dump.grid, the grid of the Snap's own dump
SnapGrid(idump, dumps) == <<"grid", "dump", idump>>

\* Snap.big_array: CachedArray(MusicDumpArray(self.dump, False))
SnapBigArray(idump) == <<"big_array", "dump", idump>>

\* the Snap the caller holds: the one run[i] returned or the view yielded
SnapAtHand ==
    \/ res.op = "getitem" /\ res.status = "ok"
    \/ res.op = "next" /\ res.status = "yield"

\* run.eos, run.cartesian, run.grid, run.big_array
RunAttr(attr) ==
    /\ acc.on = "none"
    /\ acc' = [on |-> "run", idump |-> 0, attr |-> attr,
               status |-> IF attr = "eos" THEN EosCall(conf, eosMemo).status
                          ELSE "ok",
               val |-> IF attr = "eos" THEN EosCall(conf, eosMemo).val
                       ELSE IF attr = "cartesian" THEN CartesianOf(conf)
                       ELSE IF attr = "grid"
                       THEN RunGrid(SimRead(files, simFiles)[1])
                       ELSE RunBigArray(SimRead(files, simFiles)[1])]
    /\ eosMemo' = IF attr = "eos" THEN EosMemoAfter(conf, eosMemo) ELSE eosMemo
    /\ simFiles' = IF attr \in {"grid", "big_array"}
                   THEN SimRead(files, simFiles) ELSE simFiles
    /\ UNCHANGED <<conf, handlers, nreg, rres, lastReg>>
    /\ UNCHANGED <<runVars, snapVars, threadVars, numVars>>

\* snap.eos (self.mdat.eos), snap.cartesian (self.mdat.cartesian), snap.grid
\* and snap.big_array, on the Snap at hand
SnapAttr(attr) ==
    /\ acc.on = "none"
    /\ SnapAtHand
    /\ acc' = [on |-> "snap", idump |-> res.val, attr |-> attr,
               status |-> IF attr = "eos" THEN EosCall(conf, eosMemo).status
                          ELSE "ok",
               val |-> IF attr = "eos" THEN EosCall(conf, eosMemo).val
                       ELSE IF attr = "cartesian" THEN CartesianOf(conf)
                       ELSE IF attr = "grid"
                       THEN SnapGrid(res.val, SimRead(files, simFiles)[1])
                       ELSE SnapBigArray(res.val)]
    /\ eosMemo' = IF attr = "eos" THEN EosMemoAfter(conf, eosMemo) ELSE eosMemo
    /\ UNCHANGED <<conf, regVars, runVars, snapVars, threadVars, numVars>>

\* the caller is done with the attribute
DropAcc ==
    /\ acc.on # "none"
    /\ acc' = NoAcc
    /\ UNCHANGED <<conf, eosMemo, regVars, runVars, snapVars, threadVars, numVars>>

\* iter(run) and run[:1]
OwnViews == {<<SliceItem(<<>>, <<>>, <<>>)>>, <<SliceItem(<<>>, <<1>>, <<>>)>>}

NextOwn ==
    \/ \E i \in -MaxArg..MaxArg : GetItem(i)
    \/ \E items \in OwnViews : MakeView(items)
    \/ ViewNext
    \/ DropView
    \/ \E attr \in Attrs : RunAttr(attr)
    \/ \E attr \in Attrs : SnapAttr(attr)
    \/ DropAcc

\* C25 as stated: the eos of a Snap of the run is the run's memoized
\* instance, its geometry flag is the run's, its grid is the run's grid and
\* its raw array is not the run's raw array
C25_SnapBorrowsFromRun ==
    acc.on = "snap" =>
        /\ (acc.attr = "eos" /\ acc.status = "ok") => eosMemo = <<acc.val>>
        /\ acc.attr = "cartesian" => acc.val = CartesianOf(conf)
        /\ acc.attr = "grid" =>
                acc.val = RunGrid(SimRead(files, simFiles)[1])
        /\ acc.attr = "big_array" =>
                acc.val # RunBigArray(SimRead(files, simFiles)[1])

\* C25 amended: the eos of a Snap of the run is what the run's eos is (the
\* run's memoized instance, or the failure of building it), its geometry
\* flag is the run's; its grid is the grid of its own dump, not the grid of
\* the run, and its raw array is the array of its own dump, not the run's.
C25_SnapBorrowsEosAndFlag ==
    acc.on = "snap" =>
        /\ acc.attr = "eos" =>
                \/ acc.status = "ok" /\ eosMemo = <<acc.val>>
                \/ /\ acc.status # "ok"
                   /\ eosMemo = <<>>
                   /\ acc.status = EosCall(conf, <<>>).status
        /\ acc.attr = "cartesian" => acc.val = CartesianOf(conf)
        /\ acc.attr = "grid" =>
                /\ acc.val = <<"grid", "dump", acc.idump>>
                /\ acc.val # RunGrid(SimRead(files, simFiles)[1])
        /\ acc.attr = "big_array" =>
                /\ acc.val = <<"big_array", "dump", acc.idump>>
                /\ acc.val # RunBigArray(SimRead(files, simFiles)[1])

\* the grid of the Snap of dump 1 was read after the run had built its sim
C25_Witness ==
    /\ acc.on = "snap"
    /\ acc.attr = "grid"
    /\ acc.idump = 1
    /\ simFiles # <<>>
    /\ acc.val = <<"grid", "dump", 1>>

\* the keys MusicData.eos reads for the configuration
RequiredKeys(c) == c.zz /\ c.section /\ (c.nscalars > 0 \/ c.yy)

\* C26: the eos of a run is built for every configuration that has the
\* required keys: the constant-metallicity variant (fed by density,
\* e_int_spec and a helium scalar) when nscalars > 0, else the
\* constant-composition variant (fed by density and e_int_spec), and it is
\* memoized.
C26_EosBuiltForEveryConfiguration ==
    (acc.on = "run" /\ acc.attr = "eos" /\ RequiredKeys(conf)) =>
        /\ acc.status = "ok"
        /\ acc.val[2] = (IF conf.nscalars > 0 THEN "metal" ELSE "compo")
        /\ Len(EosVars(acc.val[2])) = (IF conf.nscalars > 0 THEN 3 ELSE 2)
        /\ eosMemo = <<acc.val>>

----------------------------------------------------------------------------
(* Properties of the values *)

\* the raw var as an integer, and the field of the name, at a cell
RawInt(name, p) == RawAt(world, name, p).n
FieldAt(name, p) ==
    IF name \in NumVars THEN RawAt(world, name, p) ELSE DerivedAt(name, world, p)

Evaluated(kind) == out.status = "ok" /\ out.kind = kind

\* C16: cell by cell, the field vel_ampl is the non-negative number whose
\* square is vel_1^2 + vel_2^2 and twice the field ekin is density *
\* (vel_1^2 + vel_2^2); for constant raw fields density = 2, vel_1 = 3,
\* vel_2 = 4 they are 5 and 25 in every cell.
C16_VelAmplAndEkin ==
    /\ (Evaluated("field") /\ out.name \in {"vel_ampl", "ekin"}) =>
            DOMAIN out.at = Pts(FieldAxes(SourceOf(world)), world, 1..world.nt)
    /\ (Evaluated("field") /\ out.name = "vel_ampl") =>
            \A p \in DOMAIN out.at :
                /\ out.at[p].n >= 0
                /\ Square(out.at[p]) =
                     Rat(RawInt("vel_1", p) * RawInt("vel_1", p)
                         + RawInt("vel_2", p) * RawInt("vel_2", p))
                /\ (world.base = Base234 /\ world.grad = <<0, 0, 0>>)
                        => out.at[p] = Rat(5)
    /\ (Evaluated("field") /\ out.name = "ekin") =>
            \A p \in DOMAIN out.at :
                /\ Add(out.at[p], out.at[p]) =
                     Rat(RawInt("density", p)
                         * (RawInt("vel_1", p) * RawInt("vel_1", p)
                            + RawInt("vel_2", p) * RawInt("vel_2", p)))
                /\ (world.base = Base234 /\ world.grad = <<0, 0, 0>>)
                        => out.at[p] = Rat(25)

\* ekin of a snapshot with the constant raw fields 2, 3, 4 was evaluated
C16_Witness ==
    /\ Evaluated("field")
    /\ out.name = "ekin"
    /\ world.nt = 0
    /\ world.base = Base234
    /\ world.grad = <<0, 0, 0>>
    /\ out.at[<<0, MaxCells, MaxCells>>] = Rat(25)

\* C17: where the field of the name does not vary along x2 (a constant field
\* in particular), the radial-profile default returns its value at every
\* radius and time, on a spherical data source whatever the quadrature
\* weights and on a Cartesian one.
C17_ConstantFieldProfile ==
    (Evaluated("rprof") /\ world.grad[3] = 0) =>
        /\ DOMAIN out.at = Pts(FieldAxes(SourceOf(world)) \ {"x2"}, world,
                               1..world.nt)
        /\ \A q \in DOMAIN out.at :
                out.at[q] = FieldAt(out.name, [q EXCEPT ![3] = 1])

\* the radial profile of a field constant along x2 was evaluated on a
\* spherical run whose quadrature weights differ from cell to cell
C17_Witness ==
    /\ Evaluated("rprof")
    /\ out.name = "density"
    /\ ~world.cart
    /\ world.nt = 2
    /\ world.grad = <<1, 1, 0>>
    /\ world.w2[1] # world.w2[2]
    /\ out.at[<<2, 1, 0>>] = Rat(5)

\* the radial profile of the name on the world, evaluated
ProfileOf(name) ==
    Eval(Resolve("rprof", name, SourceOf(world), Catalogue).val, world,
         1..world.nt)

\* C18: on a spherical data source, where the radial profile of the name is
\* the same at every radius, the time-series default returns that value at
\* every time, whatever the cell widths and cell-center radii.
C18_ConstantProfileSeries ==
    (Evaluated("tseries") /\ ~world.cart) =>
        LET P == ProfileOf(out.name)
        IN  (\A q \in DOMAIN P.at : P.at[q] = P.at[[q EXCEPT ![2] = 1]]) =>
                /\ DOMAIN out.at = {<<t, 0, 0>> : t \in 1..world.nt}
                /\ \A q \in DOMAIN out.at :
                        out.at[q] = P.at[[q EXCEPT ![2] = 1]]

\* the time series of the density was evaluated on a spherical run whose
\* cell widths and radii differ from cell to cell; the profile is constant
\* in radius
C18_Witness ==
    /\ Evaluated("tseries")
    /\ out.name = "density"
    /\ ~world.cart
    /\ world.grad = <<0, 0, 0>>
    /\ world.dr[1] # world.dr[2]
    /\ world.rc[1] # world.rc[2]
    /\ \A t \in 1..world.nt : out.at[<<t, 0, 0>>] = Rat(2)

----------------------------------------------------------------------------
(* Specifications *)

\* the run: its directory, its length, indexing and views
Init == InitRun /\ InitSnapIdle /\ InitRegIdle /\ InitNumIdle /\ InitOwnIdle

Spec == Init /\ [][NextRun]_vars

\* Snap objects and their raw arrays, one request at a time
InitSnapSpec == InitRunIdle /\ InitSnap /\ InitRegIdle /\ InitNumIdle /\ InitOwnIdle

SpecSnap == InitSnapSpec /\ [][NextSnap]_vars

\* one Snap object and the threads that request its fields
InitConcSpec == InitRunIdle /\ InitConc /\ InitRegIdle /\ InitNumIdle /\ InitOwnIdle

SpecConc == InitConcSpec /\ [][NextConc]_vars

\* the registries and the resolver
InitResolveSpec == InitRunTwoDumps /\ InitSnapIdle /\ InitRegIdle /\ InitNumIdle /\ InitOwnIdle

SpecResolve == InitResolveSpec /\ [][NextResolve]_vars

\* the resolver on a run that grows
InitSimSpec == InitRunDumps /\ InitSnapIdle /\ InitRegIdle /\ InitNumIdle /\ InitOwnIdle

SpecSim == InitSimSpec /\ [][NextSim]_vars

\* a run with a dump file that may not load
InitFlagSpec ==
    InitRunTwoDumps /\ InitSnapIdle /\ InitRegIdle /\ InitNumIdle /\ InitOwnIdle
SpecFlag == InitFlagSpec /\ [][NextFlag]_vars

InitLoadSpec == InitRunLoad /\ InitSnapIdle /\ InitRegIdle /\ InitNumIdle /\ InitOwnIdle
SpecLoad == InitLoadSpec /\ [][NextLoad]_vars

\* a run, its Snaps and what they share
InitOwnSpec == InitRunTwoDumps /\ InitSnapIdle /\ InitRegIdle /\ InitNumIdle /\ InitOwn
SpecOwn == InitOwnSpec /\ [][NextOwn]_vars

\* the arrays the resolver returns, evaluated
InitNumSpec == InitRunTwoDumps /\ InitSnapIdle /\ InitRegIdle /\ InitNum /\ InitOwnIdle

SpecNum == InitNumSpec /\ [][NextNum]_vars

====
